---------------------------- MODULE Spec2Model ----------------------------
(***************************************************************************)
(* Redishort: the asset inventory and publish scheduling engine.           *)
(*                                                                         *)
(*   src/main.py             main_loop, get_next_publish_time,             *)
(*                           maintenance_and_setup, get_segment_count      *)
(*   src/video_assembler.py  SegmentManager (get_segment, consume_segment) *)
(*   src/video_downloader.py download_new_source_videos                    *)
(*   src/video_segmenter.py  process_new_videos_into_segments              *)
(*   src/reddit_scraper.py   RedditScraper.get_best_stories                *)
(*                                                                         *)
(* Time is counted in seconds since 00:00 of day 0 in the configured       *)
(* timezone.  A schedule entry is the string of config.py, kept as the     *)
(* sequence of its characters: a digit is its value, ':' is COLON.         *)
(***************************************************************************)
EXTENDS Integers, Sequences, FiniteSets, TLC

VARIABLES
    \* ---- wall clock and configuration
    now,                 \* datetime.now(tz), seconds
    schedule,            \* PUBLISHING_SCHEDULE, a sequence of "HH:MM" strings
    \* ---- main_loop (src/main.py:149-233)
    pc,                  \* position of main_loop inside one cycle
    target_publish_time, \* main.py:152
    story_id,            \* main.py:167
    output_ok,           \* main.py:186, the output file exists and is > 1024 bytes
    output_size,         \* byte size of the output file, NoFile when there is none
    story_folders,       \* story ids whose working directory exists
    processed_ids,       \* RedditScraper.processed_ids
    \* ---- segment pool and SegmentManager
    segments,            \* *.mp4 files present in SEGMENTS_FOLDER
    segSize,             \* byte size of each segment file
    assigned,            \* SegmentManager._assigned : story id -> segment path
    lock,                \* SegmentManager._lock : its holder, or NoThread
    \* ---- raw videos and their log
    raw_files,           \* stems of the *.mp4 files in RAW_VIDEOS_FOLDER
    log_lines,           \* complete lines of PROCESSED_VIDEOS_LOG
    log_tail,            \* its last line when the file does not end in a newline
    times_downloaded,    \* id -> downloads of it that succeeded (history)
    times_segmented,     \* id -> times the segmenter cut and logged it (history)
    batch,               \* the latest run of the segmenter: video -> how it ended
    offered,             \* ids the curated channels list (the environment)
    requested,           \* num_to_download of the latest maintenance, 0 if none
    \* ---- the quality test of one candidate segment
    cand,                \* the segment file just cut, NoSeg if none
    clip,                \* what cv2 reads from it
    verdict,             \* what is_segment_high_quality returned for it
    \* ---- concurrent callers of the SegmentManager
    tpc,                 \* where each caller is: idle, waiting, locked, selected
    top, targ,           \* the method it calls and the story id it passes
    tsel,                \* the path _select_valid_segment returned to it
    tret, texc, thit,    \* its last call: value returned, raised, found an entry
    tcalls,              \* calls it has made
    done_calls,          \* the calls the callers completed, in order
    \* ---- the sessions folder at startup
    sessions,            \* entries of SESSIONS_FOLDER: [name, kind]
    \* ---- the reddit scraper and its log
    posts_file,          \* lines of PROCESSED_POSTS_FILE, in file order
    listing,             \* time filter -> posts reddit lists (the environment)
    handed,              \* post id -> times main_loop received it (history)
    stories,             \* ids of the list get_best_stories returned last
    saving,              \* _save_processed_post under way: << id, stage >>
    \* ---- a scheduling query
    qresult,             \* what get_next_publish_time returned for now
    \* ---- history
    uploads,             \* every upload_to_youtube call of the run
    failed_jobs,         \* stories whose job failed while holding a segment
    first_ret,           \* story id -> the path its first get_segment returned
    maintained,          \* whether maintenance_and_setup ran in this cycle
    raised_at            \* the step whose exception is being handled

vars == << now, schedule, pc, target_publish_time, story_id, output_ok,
                    output_size,
           story_folders, processed_ids, segments, segSize, assigned, lock,
           raw_files, log_lines, log_tail, times_downloaded, times_segmented,
           batch, offered, requested, cand, clip, verdict, tpc, top, targ, tsel, tret, texc,
           thit, tcalls, done_calls, qresult, uploads, failed_jobs,
           first_ret, maintained, raised_at, sessions, posts_file, listing,
           handed, stories, saving >>

loopVars  == << pc, target_publish_time, story_id, output_ok, output_size,
                    story_folders,
                processed_ids, maintained >>
poolVars  == << segments, segSize, assigned >>
rawVars   == << raw_files, log_lines, log_tail, times_downloaded,
                times_segmented, batch, offered, requested >>
threadVars == << tpc, top, targ, tsel, tret, texc, thit, tcalls, done_calls,
                lock >>
queryVars == << qresult >>
gateVars  == << cand, clip, verdict >>
histVars  == << uploads, failed_jobs, first_ret, raised_at >>
startVars == << sessions >>
postVars  == << posts_file, listing, handed, stories, saving >>

-----------------------------------------------------------------------------
(* Bounds of the model *)

MaxTime    == 27599      \* main_loop starts no new cycle after this instant
MaxSlots   == 2          \* longest schedule of a scheduling query
MaxCalls   == 3          \* calls the concurrent callers make in all
MaxStories == 2          \* posts reddit can still offer
MaxOps     == 7          \* calls of the caller that works story by story

(* Program constants *)

COLON == 10                         \* the ':' of "HH:MM"; it sorts after every digit
DAY == 86400                        \* timedelta(days=1)
PUBLISH_TOLERANCE_MINUTES == 30
MIN_SEGMENT_SIZE_BYTES == 102400
EMPTY_WAIT == 900                   \* time.sleep(900)
BACKOFF == 600                      \* time.sleep(600)
SLEEP_FLOOR == 60                   \* max(60, ...)
LEAD_TIME == 3600                   \* ... - 3600
OUTPUT_FLOOR == 1024                \* st_size > 1024
VALIDATION_FRAME_SAMPLES == 5
MIN_BRIGHTNESS == 30
MAX_BRIGHTNESS == 220
MIN_MOTION_SCORE == 1
WHITE == 255                        \* the mean of an all-white gray frame
ENABLE_QUALITY_VALIDATION == TRUE

MIN_SEGMENTS_IN_LIBRARY == 10
MAX_RAW_VIDEOS_IN_LIBRARY == 6

None == "None"
NoTime == -1                        \* the None of a datetime
NoStory == 0                        \* no story yet
NoSeg == << >>                      \* no segment path
NoClip == << >>                     \* no clip is being looked at
NoVerdict == << >>                  \* is_segment_high_quality has not returned
NoFile == -1                        \* the size of a file that does not exist
NoThread == "NoThread"

-----------------------------------------------------------------------------
(* Strings of digits and ':' *)

Str(h1, h2, m1, m2) == << h1, h2, COLON, m1, m2 >>

PUBLISHING_SCHEDULE ==
    << Str(0,8,0,0), Str(1,0,3,0), Str(1,3,0,0),
       Str(1,8,0,0), Str(2,0,0,0), Str(2,2,0,0) >>

MinOf(S) == CHOOSE x \in S : \A y \in S : x <= y

\* Python's str < str: lexicographic on the characters; a proper prefix
\* is smaller.
StrLess(a, b) ==
    \E i \in 1..(Len(b)) :
        /\ \A j \in 1..(i - 1) : j <= Len(a) /\ a[j] = b[j]
        /\ ( i > Len(a) \/ ( i <= Len(a) /\ a[i] < b[i] ) )
        /\ i - 1 <= Len(a)

\* The place of s[i] in sorted(s); the sort is stable.
RankIn(s, i) ==
    1 + Cardinality({ j \in 1..Len(s) :
                        StrLess(s[j], s[i]) \/ ( s[j] = s[i] /\ j < i ) })

\* sorted(schedule): the list of strings in ascending string order.
sorted(s) ==
    [ k \in 1..Len(s) |-> s[CHOOSE i \in 1..Len(s) : RankIn(s, i) = k] ]

\* int(digits)
RECURSIVE ParseInt(_)
ParseInt(d) ==
    IF d = << >> THEN 0 ELSE 10 * ParseInt(SubSeq(d, 1, Len(d) - 1)) + d[Len(d)]

ColonPos(s) == CHOOSE i \in 1..Len(s) : s[i] = COLON

\* hour, minute = map(int, time_str.split(':'))
HourOf(s)   == ParseInt(SubSeq(s, 1, ColonPos(s) - 1))
MinuteOf(s) == ParseInt(SubSeq(s, ColonPos(s) + 1, Len(s)))

\* now_in_tz.replace(hour=h, minute=m, second=0, microsecond=0)
Midnight(t) == t - (t % DAY)
AtTimeOfDay(t, s) == Midnight(t) + HourOf(s) * 3600 + MinuteOf(s) * 60

\* main.py:122-126: the first entry of the sorted list that is still ahead
FirstAfter(srt, t) ==
    IF \A i \in 1..Len(srt) : ~ ( AtTimeOfDay(t, srt[i]) > t )
    THEN NoTime
    ELSE AtTimeOfDay(t, srt[MinOf({ i \in 1..Len(srt) :
                                      AtTimeOfDay(t, srt[i]) > t })])

\* main.py:114-130, with the clock reading t
get_next_publish_time(sch, t) ==
    IF FirstAfter(sorted(sch), t) # NoTime
    THEN FirstAfter(sorted(sch), t)
    ELSE AtTimeOfDay(t + DAY, sorted(sch)[1])

\* Mutants of PublishTimeForApi: the tolerance test written `<`; an early
\* completion published at once; a missed slot kept as the scheduled time.
PublishTimeForApi_ExclusiveTolerance(sch, target, current) ==
    IF current >= target
    THEN IF current - target < PUBLISH_TOLERANCE_MINUTES * 60
         THEN NoTime
         ELSE get_next_publish_time(sch, current)
    ELSE target

PublishTimeForApi_EarlyPublishesNow(sch, target, current) ==
    IF current - target <= PUBLISH_TOLERANCE_MINUTES * 60
    THEN NoTime
    ELSE get_next_publish_time(sch, current)

PublishTimeForApi_KeepsMissedTarget(sch, target, current) ==
    IF current >= target
    THEN IF current - target <= PUBLISH_TOLERANCE_MINUTES * 60
         THEN NoTime
         ELSE target
    ELSE target

\* A missed slot replaced by the instant of the decision.
PublishTimeForApi_SchedulesNow(sch, target, current) ==
    IF current >= target
    THEN IF current - target <= PUBLISH_TOLERANCE_MINUTES * 60
         THEN NoTime
         ELSE current
    ELSE target

\* main.py:188-199: the value of publish_time_for_api
PublishTimeForApi(sch, target, current) ==
    IF current >= target
    THEN IF current - target <= PUBLISH_TOLERANCE_MINUTES * 60
         THEN NoTime
         ELSE get_next_publish_time(sch, current)
    ELSE target

\* main.py:222-226: sleep_duration
\* A cooldown without the floor of 60 seconds.
SleepDuration_NoFloor(sch, t) == get_next_publish_time(sch, t) - t - LEAD_TIME

SleepDuration(sch, t) ==
    LET time_to_next_slot == get_next_publish_time(sch, t) - t
    IN  IF time_to_next_slot - LEAD_TIME > SLEEP_FLOOR
        THEN time_to_next_slot - LEAD_TIME ELSE SLEEP_FLOOR

-----------------------------------------------------------------------------
(* Universe of the model *)

MaxSegsPerVideo == 1     \* most segments one raw video is cut into

StoryIds == 1..MaxStories

\* reddit_scraper.py:177: the listings get_best_stories scans, in this order
TimeFilters == << "day", "week", "month" >>
\* reddit lists nothing
NoListing == [ i \in 1..3 |-> << >> ]
\* no call of _save_processed_post is under way
NoSaving == << 0, "idle" >>

\* the posts reddit may list: dict.get of the fields the scraper reads
Posts ==
    { [ id |-> 1, stickied |-> FALSE, is_self |-> TRUE, text_len |-> 80,
        score |-> 10, num_comments |-> 0 ],
      [ id |-> 2, stickied |-> FALSE, is_self |-> TRUE, text_len |-> 400,
        score |-> 5, num_comments |-> 15 ],
      [ id |-> 3, stickied |-> TRUE, is_self |-> TRUE, text_len |-> 400,
        score |-> 30, num_comments |-> 0 ] }

PostIds == { p.id : p \in Posts }
RawIds   == { "v1", "v2" }           \* videos the curated channels may offer
Stems    == RawIds \cup { "v0", "w0", "u0", "m1", "m2" }
\* files of an interrupted cut, too small to be used
Truncated == { "u0" } \X (1..(MIN_SEGMENTS_IN_LIBRARY - 2))
\* f"{stem}_seg{i}.mp4"
SegNames == (Stems \X (1..MaxSegsPerVideo)) \cup Truncated
Threads  == { "t1", "t2" }

UNDERSIZED == MIN_SEGMENT_SIZE_BYTES - 1

\* Seconds the production of one video takes, script to rendered file.
ProdDurations == { 1800, 3600, 5400, 5460, 7200 }

ExampleSchedule == << Str(2,0,0,0), Str(0,8,0,0) >>

-----------------------------------------------------------------------------
(* SegmentManager, src/video_assembler.py:44-79 *)

\* Mutant of Available: the size of a file is not looked at.
Available_AnySize(segs, size) == segs

\* _select_valid_segment, line 67: the list random.choice draws from
Available(segs, size) ==
    { p \in segs : size[p] >= MIN_SEGMENT_SIZE_BYTES }

\* Mutant of AlreadyAssigned: the entry of a story is never found.
AlreadyAssigned_NeverFound(asg, story) == FALSE

\* get_segment, line 57: story_id in self._assigned
AlreadyAssigned(asg, story) == story \in DOMAIN asg

\* get_segment, line 60: self._assigned[story_id] = segment
RecordAssignment(asg, story, p) ==
    [ s \in DOMAIN asg \cup { story } |-> IF s = story THEN p ELSE asg[s] ]

\* get_segment, lines 57-62: the map after get_segment(story) drew path p
AssignedAfterGet(asg, story, p) ==
    IF AlreadyAssigned(asg, story) THEN asg ELSE RecordAssignment(asg, story, p)

\* get_segment, lines 57-62: the value returned
GetReturn(asg, story, p) ==
    IF AlreadyAssigned(asg, story) THEN asg[story] ELSE p

\* Mutant of GetRaises: the last usable file is refused as well.
GetRaises_LastOneKept(segs, size, asg, story) ==
    story \notin DOMAIN asg /\ Cardinality(Available(segs, size)) <= 1

\* get_segment raises ValueError: not yet assigned and nothing to choose from
GetRaises(segs, size, asg, story) ==
    ~ AlreadyAssigned(asg, story) /\ Available(segs, size) = {}

\* the paths get_segment(story) may return
GetChoices(segs, size, asg, story) ==
    IF AlreadyAssigned(asg, story) THEN { asg[story] } ELSE Available(segs, size)

\* consume_segment, lines 75-76: self._assigned.pop(story_id)
AssignedAfterConsume(asg, story) ==
    [ s \in DOMAIN asg \ { story } |-> asg[s] ]

\* Mutant of SegmentsAfterConsume: the file is not unlinked.
SegmentsAfterConsume_KeepsFile(segs, asg, story) == segs

\* consume_segment, lines 75-78: the pool after path.unlink()
SegmentsAfterConsume(segs, asg, story) ==
    IF story \in DOMAIN asg THEN segs \ { asg[story] } ELSE segs

\* history: the path the first get_segment of a story returned
FirstRetAfterGet(fr, asg, story, p) ==
    IF story \in DOMAIN asg THEN fr ELSE [ fr EXCEPT ![story] = p ]

FirstRetAfterConsume(fr, story) == [ fr EXCEPT ![story] = NoSeg ]

-----------------------------------------------------------------------------
(* Raw videos: download_new_source_videos and                              *)
(* process_new_videos_into_segments                                        *)

\* set(Path(PROCESSED_VIDEOS_LOG).read_text().splitlines()).  A line is the
\* sequence of the ids written on it: << v >> is the line "v", and
\* << v, w >> is "vw", two ids written with no newline between them.
LogIds(lines, tail) == lines \cup (IF tail = << >> THEN {} ELSE { tail })

\* has_video_files(raw_videos_dir), main.py:86-89
has_video_files(raw) == Cardinality(raw)

\* A count that always reads an empty folder.
get_segment_count_ReadsNone(segs) == 0

\* get_segment_count, main.py:108-112: every *.mp4 file, whatever its size
get_segment_count(segs) == Cardinality(segs)

\* A maintenance that asks for a whole ceiling of videos every time.
videos_to_download_WholeCeiling(raw) == MAX_RAW_VIDEOS_IN_LIBRARY

\* main.py:99
videos_to_download(raw) == MAX_RAW_VIDEOS_IN_LIBRARY - has_video_files(raw)

\* video_downloader.py:60-66: the ids a download call may fetch
DownloadCandidates(lines, tail) ==
    { v \in offered : << v >> \notin LogIds(lines, tail) }

\* video_downloader.py:29-32, 96: processed_ids after downloading D
DownloadProcessed(lines, tail, D) ==
    LogIds(lines, tail) \cup { << v >> : v \in D }

\* video_segmenter.py:111: videos_to_process
VideosToProcess(raw, lines, tail) ==
    { v \in raw : << v >> \notin LogIds(lines, tail) }

\* What happens to one raw video in the loop of video_segmenter.py:117-181:
\*   short  lines 127-129: too short after trimming, `continue`
\*   error  lines 180-181: an exception, logged, after n segments were
\*          written, of which those of `kept` passed the quality test
\*   ok     lines 144-178: n segments written, those of `kept` pass
\*          is_segment_high_quality and the others are unlinked
Outcomes ==
    { [ kind |-> "short", n |-> 0, kept |-> {} ] }
    \cup UNION { { [ kind |-> k, n |-> n, kept |-> K ] :
                     k \in { "ok", "error" }, K \in SUBSET (1..n) }
                 : n \in 0..MaxSegsPerVideo }

\* the videos whose segment loop ran, lines 150-169
Written(todo, oc) == { v \in todo : oc[v].kind # "short" }

\* A batch that gives up at the first exception.
Done_StopsAtFirstError(todo, oc) ==
    IF \E v \in todo : oc[v].kind = "error" THEN {}
    ELSE { v \in todo : oc[v].kind = "ok" }

\* the videos that reached lines 171-178
Done(todo, oc) == { v \in todo : oc[v].kind = "ok" }

\* video_segmenter.py:150-169: the pool after the batch
\* A segmenter that leaves the files the quality test refused.
SegmentsAfterBatch_KeepsRejected(segs, todo, oc) ==
    segs \cup { p \in SegNames : /\ p[1] \in todo
                                  /\ oc[p[1]].kind # "short"
                                  /\ p[2] <= oc[p[1]].n }

SegmentsAfterBatch(segs, todo, oc) ==
    LET written == Written(todo, oc)
    IN  { p \in segs : ~ ( p[1] \in written /\ p[2] <= oc[p[1]].n ) }
        \cup { p \in SegNames : p[1] \in written /\ p[2] \in oc[p[1]].kept }

\* video_segmenter.py:172-174: the raw folder after the batch
RawAfterBatch(raw, todo, oc) == raw \ Done(todo, oc)

\* video_segmenter.py:176-178: open(log, "a").write(stem + "\n") for every
\* video done; `first` is the one appended first.
LinesAfterBatch(lines, tail, todo, oc, first) ==
    IF Done(todo, oc) = {} THEN lines
    ELSE lines \cup { tail \o << first >> }
               \cup { << v >> : v \in Done(todo, oc) \ { first } }

TailAfterBatch(tail, todo, oc) ==
    IF Done(todo, oc) = {} THEN tail ELSE << >>

-----------------------------------------------------------------------------
(* Initial state: the process has just entered `while True` of main_loop.  *)
(* The folder holds the segments of videos processed by an earlier run     *)
(* (v0, w0) and truncated files (u0), or one truncated file alone; the    *)
(* raw folder is empty (left-over raw videos start SpecSupply).            *)

StartTimes == { 7 * 3600 }

\* a folder of MIN_SEGMENTS_IN_LIBRARY files, two of them usable
FullFolder == { << "v0", 1 >>, << "w0", 1 >> } \cup Truncated

InitFolders == { FullFolder, { << "u0", 1 >> } }

InitSize == [ p \in SegNames |->
                IF p[1] = "u0" THEN UNDERSIZED ELSE MIN_SEGMENT_SIZE_BYTES ]

NoAssignment == [ s \in {} |-> NoSeg ]

InitButLog ==
    /\ target_publish_time = NoTime
    /\ story_id = NoStory
    /\ output_ok = FALSE
    /\ output_size = NoFile
    /\ story_folders = {}
    /\ processed_ids = {}
    /\ segSize = InitSize
    /\ assigned = NoAssignment
    /\ lock = NoThread
    /\ requested = 0
    /\ cand = NoSeg
    /\ clip = NoClip
    /\ verdict = NoVerdict
    /\ times_downloaded = [ v \in Stems |-> 0 ]
    /\ times_segmented = [ v \in Stems |-> 0 ]
    /\ batch = << >>
    /\ tpc = [ t \in Threads |-> "idle" ]
    /\ top = [ t \in Threads |-> None ]
    /\ targ = [ t \in Threads |-> NoStory ]
    /\ tret = [ t \in Threads |-> NoSeg ]
    /\ thit = [ t \in Threads |-> FALSE ]
    /\ tsel = [ t \in Threads |-> NoSeg ]
    /\ texc = [ t \in Threads |-> FALSE ]
    /\ tcalls = [ t \in Threads |-> 0 ]
    /\ raised_at = None
    /\ done_calls = << >>
    /\ qresult = NoTime
    /\ uploads = {}
    /\ failed_jobs = {}
    /\ first_ret = [ s \in StoryIds |-> NoSeg ]
    /\ maintained = FALSE
    /\ posts_file = << >>
    /\ stories = << >>
    /\ saving = NoSaving
    /\ listing = NoListing
    /\ handed = [ s \in StoryIds \cup PostIds |-> 0 ]

\* the log names v0 and the channels list v1
InitCommon ==
    /\ InitButLog
    /\ sessions = {}
    /\ log_lines = { << "v0" >> }
    /\ log_tail = << >>
    /\ offered = { "v1" }

\* The installations main_loop starts in: the schedule, the segments folder
\* and the raw videos folder of each.
Installations ==
    { << PUBLISHING_SCHEDULE, FullFolder, {} >>,
      << PUBLISHING_SCHEDULE, { << "u0", 1 >> }, {} >>,
      << ExampleSchedule, FullFolder, {} >> }

Init ==
    /\ InitCommon
    /\ now \in StartTimes
    /\ pc = "plan"
    /\ \E i \in Installations :
          /\ schedule = i[1]
          /\ segments = i[2]
          /\ raw_files = i[3]

-----------------------------------------------------------------------------
(* main_loop, src/main.py:149-233 *)

\* line 152
Plan ==
    /\ pc = "plan"
    /\ now < MaxTime
    /\ target_publish_time' = get_next_publish_time(schedule, now)
    /\ maintained' = FALSE
    /\ pc' = "maintain"
    /\ UNCHANGED << startVars, postVars, now, schedule, story_id, output_ok, output_size,
                    story_folders,
                    processed_ids, poolVars, rawVars, threadVars, queryVars, gateVars,
                    histVars >>

\* line 155, the test fails: no maintenance
MaintainSkip ==
    /\ pc = "maintain"
    /\ ~ ( get_segment_count(segments) < MIN_SEGMENTS_IN_LIBRARY )
    /\ pc' = "fetch"
    /\ UNCHANGED << startVars, postVars, now, schedule, target_publish_time, story_id, output_ok,
                    output_size,
                    story_folders, processed_ids, maintained, poolVars, rawVars,
                    threadVars, queryVars, gateVars, histVars >>

\* maintenance_and_setup, lines 91-106.  D are the videos the download
\* fetches, last the line its rewrite of the log puts last, oc what the
\* segmenter makes of each raw video, first the video it logs first.
RawAfterDownload(D) ==
    IF videos_to_download(raw_files) > 0 THEN raw_files \cup D ELSE raw_files

LogWritten(D) ==
    /\ videos_to_download(raw_files) > 0
    /\ DownloadProcessed(log_lines, log_tail, D) # {}

LinesAfterDownload(D, last) ==
    IF LogWritten(D)
    THEN DownloadProcessed(log_lines, log_tail, D) \ { last } ELSE log_lines

TailAfterDownload(D, last) == IF LogWritten(D) THEN last ELSE log_tail

Todo(D, last) ==
    IF has_video_files(RawAfterDownload(D)) > 0
    THEN VideosToProcess(RawAfterDownload(D), LinesAfterDownload(D, last),
                         TailAfterDownload(D, last))
    ELSE {}

maintenance_and_setup(D, last, oc, first) ==
    LET raw1  == RawAfterDownload(D)
        lines == LinesAfterDownload(D, last)
        tail  == TailAfterDownload(D, last)
        todo  == Todo(D, last)
        written == Written(todo, oc)
        done  == Done(todo, oc)
    IN  /\ segments' = SegmentsAfterBatch(segments, todo, oc)
        /\ segSize' = [ p \in SegNames |->
                          IF p \in segments' /\ p[1] \in written
                          THEN MIN_SEGMENT_SIZE_BYTES ELSE segSize[p] ]
        /\ raw_files' = RawAfterBatch(raw1, todo, oc)
        /\ log_lines' = LinesAfterBatch(lines, tail, todo, oc, first)
        /\ log_tail' = TailAfterBatch(tail, todo, oc)
        \* video_downloader.py:94-96, `downloaded.append`
        /\ times_downloaded' =
               [ v \in Stems |->
                   IF videos_to_download(raw_files) > 0 /\ v \in D
                   THEN times_downloaded[v] + 1 ELSE times_downloaded[v] ]
        \* video_segmenter.py:171-178
        /\ times_segmented' =
               [ v \in Stems |-> IF v \in done THEN times_segmented[v] + 1
                                 ELSE times_segmented[v] ]
        \* video_segmenter.py:117-181, one entry for each of videos_to_process
        /\ batch' = [ v \in todo |-> oc[v] ]
        \* main.py:99-102
        /\ requested' = IF videos_to_download(raw_files) > 0
                        THEN videos_to_download(raw_files) ELSE 0
        /\ offered' = offered

\* What one download call may fetch: at most num_to_download candidates.
Downloads ==
    IF videos_to_download(raw_files) > 0
    THEN { D \in SUBSET DownloadCandidates(log_lines, log_tail) :
             Cardinality(D) <= videos_to_download(raw_files) }
    ELSE { {} }

\* "\n".join(processed_ids) ends with any one of the ids of the set.
LastLines(D) ==
    IF LogWritten(D) THEN DownloadProcessed(log_lines, log_tail, D)
    ELSE { << >> }

Firsts(todo, oc) == IF Done(todo, oc) = {} THEN { None } ELSE Done(todo, oc)

\* lines 155-157
MaintainRun ==
    /\ pc = "maintain"
    /\ get_segment_count(segments) < MIN_SEGMENTS_IN_LIBRARY
    /\ \E D \in Downloads :
       \E last \in LastLines(D) :
       \E oc \in [ Todo(D, last) -> Outcomes ] :
       \E first \in Firsts(Todo(D, last), oc) :
           maintenance_and_setup(D, last, oc, first)
    /\ maintained' = TRUE
    /\ pc' = "fetch"
    /\ UNCHANGED << startVars, postVars, now, schedule, target_publish_time, story_id, output_ok,
                    output_size,
                    story_folders, processed_ids, assigned, threadVars,
                    queryVars, gateVars, histVars >>

\* lines 161-164: get_best_stories returned no story
FetchNone ==
    /\ pc = "fetch"
    /\ stories' = << >>
    /\ pc' = "wait_empty"
    /\ UNCHANGED << startVars, posts_file, listing, handed, saving, now, schedule, target_publish_time, story_id, output_ok,
                    output_size,
                    story_folders, processed_ids, maintained, poolVars, rawVars,
                    threadVars, queryVars, gateVars, histVars >>

\* Mutant of WaitEmpty: the empty list is handled by the catch-all.
WaitEmpty_ViaBackoff ==
    /\ pc = "wait_empty"
    /\ pc' = "except"
    /\ raised_at' = "fetch"
    /\ UNCHANGED << startVars, postVars, now, schedule, target_publish_time, story_id, output_ok,
                    output_size, story_folders, processed_ids, maintained,
                    poolVars, rawVars, threadVars, queryVars, gateVars, uploads,
                    failed_jobs, first_ret >>

\* line 164: time.sleep(900); continue
WaitEmpty ==
    /\ pc = "wait_empty"
    /\ now' = now + EMPTY_WAIT
    /\ pc' = "plan"
    /\ UNCHANGED << startVars, postVars, schedule, target_publish_time, story_id, output_ok,
                    output_size,
                    story_folders, processed_ids, maintained, poolVars, rawVars,
                    threadVars, queryVars, gateVars, histVars >>

\* A fetch that may return a post already processed.
FetchStory_IgnoresLog ==
    /\ pc = "fetch"
    /\ \E s \in StoryIds :
          /\ story_id' = s
          /\ processed_ids' = processed_ids \cup { s }
          /\ posts_file' = Append(posts_file, s)
          /\ handed' = [ handed EXCEPT ![s] = IF @ < 2 THEN @ + 1 ELSE @ ]
          /\ stories' = << s >>
          /\ story_folders' = story_folders \cup { s }
    /\ Len(posts_file) < 2 * MaxStories
    /\ pc' = "script"
    /\ UNCHANGED << startVars, listing, saving, now, schedule, target_publish_time, output_ok,
                    output_size, maintained,
                    poolVars, rawVars, threadVars, queryVars, gateVars, histVars >>

\* lines 161-169: get_best_stories returned a post not yet processed
\* (reddit_scraper.py:138) and logged it (reddit_scraper.py:160)
FetchStory ==
    /\ pc = "fetch"
    /\ \E s \in StoryIds \ processed_ids :
          /\ story_id' = s
          /\ processed_ids' = processed_ids \cup { s }
          /\ posts_file' = Append(posts_file, s)
          /\ handed' = [ handed EXCEPT ![s] = @ + 1 ]
          /\ stories' = << s >>
          /\ story_folders' = story_folders \cup { s }
    /\ pc' = "script"
    /\ UNCHANGED << startVars, listing, saving, now, schedule, target_publish_time, output_ok,
                    output_size, maintained,
                    poolVars, rawVars, threadVars, queryVars, gateVars, histVars >>

\* lines 172-174: process_story; without a content pack, `continue`
Script ==
    /\ pc = "script"
    /\ \E ok \in BOOLEAN : pc' = IF ok THEN "audio" ELSE "plan"
    /\ UNCHANGED << startVars, postVars, now, schedule, target_publish_time, story_id, output_ok,
                    output_size,
                    story_folders, processed_ids, maintained, poolVars, rawVars,
                    threadVars, queryVars, gateVars, histVars >>

\* lines 176-178: generate_audio; without audio, `continue`
Audio ==
    /\ pc = "audio"
    /\ \E ok \in BOOLEAN : pc' = IF ok THEN "assign" ELSE "plan"
    /\ UNCHANGED << startVars, postVars, now, schedule, target_publish_time, story_id, output_ok,
                    output_size,
                    story_folders, processed_ids, maintained, poolVars, rawVars,
                    threadVars, queryVars, gateVars, histVars >>

\* line 180: get_random_video_segment(story_id)
Assign ==
    /\ pc = "assign"
    /\ ~ GetRaises(segments, segSize, assigned, story_id)
    /\ \E p \in GetChoices(segments, segSize, assigned, story_id) :
          /\ assigned' = AssignedAfterGet(assigned, story_id, p)
          /\ first_ret' = FirstRetAfterGet(first_ret, assigned, story_id, p)
    /\ pc' = "assemble"
    /\ UNCHANGED << startVars, postVars, now, schedule, target_publish_time, story_id, output_ok,
                    output_size,
                    story_folders, processed_ids, maintained, segments, segSize,
                    rawVars, threadVars, queryVars, gateVars, uploads, failed_jobs,
                    raised_at >>

\* line 180: get_segment raises ValueError("No valid segments available.")
AssignRaise ==
    /\ pc = "assign"
    /\ GetRaises(segments, segSize, assigned, story_id)
    /\ pc' = "except"
    /\ raised_at' = pc
    /\ UNCHANGED << startVars, postVars, now, schedule, target_publish_time, story_id, output_ok,
                    output_size,
                    story_folders, processed_ids, maintained, poolVars, rawVars,
                    threadVars, queryVars, gateVars, uploads, failed_jobs, first_ret >>

\* sizes the rendered file may have
OutputSizes == { NoFile, OUTPUT_FLOOR - 1, OUTPUT_FLOOR, OUTPUT_FLOOR + 1 }

\* Mutant of OutputUsable: any file that exists is published.
OutputUsable_AnyFile(sz) == sz # NoFile

\* line 186: output_video_path.exists() and st_size > 1024
OutputUsable(sz) == sz # NoFile /\ sz > OUTPUT_FLOOR

\* line 183: assemble_viral_video catches its own errors (video_assembler.py
\* 237-238) and may leave no output file.  The time the production took is
\* accounted here.
Assemble ==
    /\ pc = "assemble"
    /\ \E d \in ProdDurations : now' = now + d
    /\ \E sz \in OutputSizes :
          /\ output_size' = sz
          /\ output_ok' = OutputUsable(sz)
    /\ pc' = "publish"
    /\ UNCHANGED << startVars, postVars, schedule, target_publish_time, story_id, story_folders,
                    processed_ids, maintained, poolVars, rawVars, threadVars,
                    queryVars, gateVars, histVars >>

\* line 186, the test fails: nothing to publish
NoOutput ==
    /\ pc = "publish"
    /\ ~ output_ok
    /\ failed_jobs' = failed_jobs \cup { story_id }
    /\ pc' = "cooldown"
    /\ UNCHANGED << startVars, postVars, now, schedule, target_publish_time, story_id, output_ok,
                    output_size,
                    story_folders, processed_ids, maintained, poolVars, rawVars,
                    threadVars, queryVars, gateVars, uploads, first_ret, raised_at >>

\* the upload_to_youtube call of lines 205-208, as history
UploadCall(ok) ==
    [ story |-> story_id,
      publish_at |-> PublishTimeForApi(schedule, target_publish_time, now),
      ok |-> ok, at |-> now, target |-> target_publish_time ]

\* lines 186-213: upload_to_youtube returned a video id
UploadOk ==
    /\ pc = "publish"
    /\ output_ok
    /\ uploads' = uploads \cup { UploadCall(TRUE) }
    /\ assigned' = AssignedAfterConsume(assigned, story_id)
    /\ segments' = SegmentsAfterConsume(segments, assigned, story_id)
    /\ story_folders' = story_folders \ { story_id }
    /\ first_ret' = FirstRetAfterConsume(first_ret, story_id)
    /\ pc' = "cooldown"
    /\ UNCHANGED << startVars, postVars, now, schedule, target_publish_time, story_id, output_ok,
                    output_size,
                    processed_ids, maintained, segSize, rawVars, threadVars,
                    queryVars, gateVars, failed_jobs, raised_at >>

\* Mutant of UploadFail: the cleanup of lines 212-213 placed after the if.
UploadFail_CleansUp ==
    /\ pc = "publish"
    /\ output_ok
    /\ uploads' = uploads \cup { UploadCall(FALSE) }
    /\ failed_jobs' = failed_jobs \cup { story_id }
    /\ assigned' = AssignedAfterConsume(assigned, story_id)
    /\ segments' = SegmentsAfterConsume(segments, assigned, story_id)
    /\ story_folders' = story_folders \ { story_id }
    /\ pc' = "cooldown"
    /\ UNCHANGED << startVars, postVars, now, schedule, target_publish_time, story_id, output_ok,
                    output_size,
                    processed_ids, maintained, segSize, rawVars, threadVars,
                    queryVars, gateVars, first_ret, raised_at >>

\* lines 186-215: upload_to_youtube returned None
UploadFail ==
    /\ pc = "publish"
    /\ output_ok
    /\ uploads' = uploads \cup { UploadCall(FALSE) }
    /\ failed_jobs' = failed_jobs \cup { story_id }
    /\ pc' = "cooldown"
    /\ UNCHANGED << startVars, postVars, now, schedule, target_publish_time, story_id, output_ok,
                    output_size,
                    story_folders, processed_ids, maintained, poolVars, rawVars,
                    threadVars, queryVars, gateVars, first_ret, raised_at >>

\* lines 219-228
Cooldown ==
    /\ pc = "cooldown"
    /\ now' = now + SleepDuration(schedule, now)
    /\ pc' = "plan"
    /\ UNCHANGED << startVars, postVars, schedule, target_publish_time, story_id, output_ok,
                    output_size,
                    story_folders, processed_ids, maintained, poolVars, rawVars,
                    threadVars, queryVars, gateVars, histVars >>

\* The steps of the try block in which a collaborator may raise.
RaisingSteps ==
    { "plan", "maintain", "fetch", "script", "audio", "publish", "cooldown" }

\* an exception leaves the try block, line 230
Raise ==
    /\ pc \in RaisingSteps
    /\ now < MaxTime
    /\ pc' = "except"
    /\ raised_at' = pc
    /\ UNCHANGED << startVars, postVars, now, schedule, target_publish_time, story_id, output_ok,
                    output_size,
                    story_folders, processed_ids, maintained, poolVars, rawVars,
                    threadVars, queryVars, gateVars, uploads, failed_jobs, first_ret >>

\* Mutant of Backoff: the exception ends the process.
Backoff_Exits ==
    /\ pc = "except"
    /\ pc' = "exit"
    /\ raised_at' = None
    /\ UNCHANGED << startVars, postVars, now, schedule, target_publish_time, story_id, output_ok,
                    output_size,
                    story_folders, processed_ids, maintained, poolVars, rawVars,
                    threadVars, queryVars, gateVars, uploads, failed_jobs, first_ret >>

\* lines 230-233: log, time.sleep(600), next iteration
Backoff ==
    /\ pc = "except"
    /\ now' = now + BACKOFF
    /\ pc' = "plan"
    /\ raised_at' = None
    /\ UNCHANGED << startVars, postVars, schedule, target_publish_time, story_id, output_ok,
                    output_size,
                    story_folders, processed_ids, maintained, poolVars, rawVars,
                    threadVars, queryVars, gateVars, uploads, failed_jobs, first_ret >>

Next ==
    \/ Plan
    \/ MaintainSkip
    \/ MaintainRun
    \/ FetchNone
    \/ WaitEmpty
    \/ FetchStory
    \/ Script
    \/ Audio
    \/ Assign
    \/ AssignRaise
    \/ Assemble
    \/ NoOutput
    \/ UploadOk
    \/ UploadFail
    \/ Cooldown
    \/ Raise
    \/ Backoff

Spec == Init /\ [][Next]_vars


\* time.sleep(600) in the handler of line 230 and time.sleep(900) of line
\* 164 return: the backoff step and the wait for stories are always taken
\* in the end.
LiveSpec == Init /\ [][Next]_vars /\ WF_vars(Backoff) /\ WF_vars(WaitEmpty)

-----------------------------------------------------------------------------
(* Concurrent callers of one SegmentManager, src/video_assembler.py:44-79. *)
(* A caller is idle, waiting for the lock, locked (inside `with            *)
(* self._lock`), or selected (back from _select_valid_segment).            *)

Ops == { "get", "consume" }

\* the record of a completed call
CallDone(t, path, hit, exc) ==
    [ by |-> t, op |-> top[t], id |-> targ[t], path |-> path, hit |-> hit,
      exc |-> exc ]

\* the calls completed and the calls under way
CallsMade == Len(done_calls) + Cardinality({ t \in Threads : tpc[t] # "idle" })

\* a caller enters get_segment(id) or consume_segment(id)
TCall(t) ==
    /\ tpc[t] = "idle"
    /\ CallsMade < MaxCalls
    /\ \E op \in Ops, id \in StoryIds :
          /\ top' = [ top EXCEPT ![t] = op ]
          /\ targ' = [ targ EXCEPT ![t] = id ]
    /\ tpc' = [ tpc EXCEPT ![t] = "waiting" ]
    /\ tcalls' = [ tcalls EXCEPT ![t] = @ + 1 ]
    /\ tret' = [ tret EXCEPT ![t] = NoSeg ]
    /\ texc' = [ texc EXCEPT ![t] = FALSE ]
    /\ thit' = [ thit EXCEPT ![t] = FALSE ]
    /\ UNCHANGED << startVars, postVars, now, schedule, loopVars, poolVars, rawVars, queryVars, gateVars,
                    histVars, tsel, done_calls, lock >>

\* lines 56 and 74: with self._lock
TAcquire(t) ==
    /\ tpc[t] = "waiting"
    /\ lock = NoThread
    /\ lock' = t
    /\ tpc' = [ tpc EXCEPT ![t] = "locked" ]
    /\ UNCHANGED << startVars, postVars, now, schedule, loopVars, poolVars, rawVars, queryVars, gateVars,
                    histVars, top, targ, tsel, tret, texc, thit, tcalls,
                    done_calls >>

\* get_segment, lines 57-58: the story has an entry, which is returned
TGetAssigned(t) ==
    /\ tpc[t] = "locked"
    /\ top[t] = "get"
    /\ AlreadyAssigned(assigned, targ[t])
    /\ tret' = [ tret EXCEPT ![t] = assigned[targ[t]] ]
    /\ thit' = [ thit EXCEPT ![t] = TRUE ]
    /\ done_calls' = Append(done_calls,
                            CallDone(t, assigned[targ[t]], TRUE, FALSE))
    /\ tpc' = [ tpc EXCEPT ![t] = "idle" ]
    /\ lock' = NoThread
    /\ UNCHANGED << startVars, postVars, now, schedule, loopVars, poolVars, rawVars, queryVars, gateVars,
                    histVars, top, targ, tsel, texc, tcalls >>

\* get_segment, line 59, and _select_valid_segment, lines 66-70:
\* random.choice among the files of the folder that are large enough
TGetSelect(t) ==
    /\ tpc[t] = "locked"
    /\ top[t] = "get"
    /\ ~ AlreadyAssigned(assigned, targ[t])
    /\ \E p \in Available(segments, segSize) :
          tsel' = [ tsel EXCEPT ![t] = p ]
    /\ tpc' = [ tpc EXCEPT ![t] = "selected" ]
    /\ UNCHANGED << startVars, postVars, now, schedule, loopVars, poolVars, rawVars, queryVars, gateVars,
                    histVars, top, targ, tret, texc, thit, tcalls, done_calls,
                    lock >>

\* _select_valid_segment, lines 68-69: ValueError leaves get_segment
TGetRaise(t) ==
    /\ tpc[t] = "locked"
    /\ top[t] = "get"
    /\ GetRaises(segments, segSize, assigned, targ[t])
    /\ texc' = [ texc EXCEPT ![t] = TRUE ]
    /\ done_calls' = Append(done_calls, CallDone(t, NoSeg, FALSE, TRUE))
    /\ tpc' = [ tpc EXCEPT ![t] = "idle" ]
    /\ lock' = NoThread
    /\ UNCHANGED << startVars, postVars, now, schedule, loopVars, poolVars, rawVars, queryVars, gateVars,
                    histVars, top, targ, tsel, tret, thit, tcalls >>

\* get_segment, lines 60-62: record the assignment, return the segment
TGetRecord(t) ==
    /\ tpc[t] = "selected"
    /\ assigned' = RecordAssignment(assigned, targ[t], tsel[t])
    /\ first_ret' = [ first_ret EXCEPT ![targ[t]] = tsel[t] ]
    /\ tret' = [ tret EXCEPT ![t] = tsel[t] ]
    /\ tsel' = [ tsel EXCEPT ![t] = NoSeg ]
    /\ done_calls' = Append(done_calls, CallDone(t, tsel[t], FALSE, FALSE))
    /\ tpc' = [ tpc EXCEPT ![t] = "idle" ]
    /\ lock' = NoThread
    /\ UNCHANGED << startVars, postVars, now, schedule, loopVars, rawVars, queryVars, gateVars, segments,
                    segSize, uploads, failed_jobs, raised_at, top, targ, texc,
                    thit, tcalls >>

\* consume_segment, lines 74-79
TConsume(t) ==
    /\ tpc[t] = "locked"
    /\ top[t] = "consume"
    /\ assigned' = AssignedAfterConsume(assigned, targ[t])
    /\ segments' = SegmentsAfterConsume(segments, assigned, targ[t])
    /\ first_ret' = FirstRetAfterConsume(first_ret, targ[t])
    /\ thit' = [ thit EXCEPT ![t] = AlreadyAssigned(assigned, targ[t]) ]
    /\ done_calls' =
          Append(done_calls,
                 CallDone(t, IF AlreadyAssigned(assigned, targ[t])
                             THEN assigned[targ[t]] ELSE NoSeg,
                          AlreadyAssigned(assigned, targ[t]), FALSE))
    /\ tpc' = [ tpc EXCEPT ![t] = "idle" ]
    /\ lock' = NoThread
    /\ UNCHANGED << startVars, postVars, now, schedule, loopVars, rawVars, queryVars, gateVars, segSize,
                    uploads, failed_jobs, raised_at, top, targ, tsel, tret,
                    texc, tcalls >>

InitAlloc ==
    /\ InitCommon
    /\ now \in StartTimes
    /\ schedule = PUBLISHING_SCHEDULE
    /\ pc = "plan"
    /\ segments \in InitFolders
    /\ raw_files = {}

NextAlloc ==
    \/ \E t \in Threads : TCall(t)
    \/ \E t \in Threads : TAcquire(t)
    \/ \E t \in Threads : TGetAssigned(t)
    \/ \E t \in Threads : TGetSelect(t)
    \/ \E t \in Threads : TGetRaise(t)
    \/ \E t \in Threads : TGetRecord(t)
    \/ \E t \in Threads : TConsume(t)

SpecAlloc == InitAlloc /\ [][NextAlloc]_vars

-----------------------------------------------------------------------------
(* One caller that works story by story, as main_loop does: it calls       *)
(* get_segment(id), src/video_assembler.py:54-62, and then either          *)
(* consume_segment(id), lines 72-79, or get_segment for the next story.    *)
(* With one caller the lock is free at every call, so a call is one step.  *)

Caller == "t1"

\* three usable segments and one truncated file
ExamplePool ==
    { << "v0", 1 >>, << "w0", 1 >>, << "m1", 1 >>, << "u0", 1 >> }

\* get_segment(id) returns, lines 56-62
CycleGet ==
    /\ Len(done_calls) < MaxOps
    /\ \E id \in StoryIds :
          /\ ~ GetRaises(segments, segSize, assigned, id)
          /\ \E p \in GetChoices(segments, segSize, assigned, id) :
                /\ assigned' = AssignedAfterGet(assigned, id, p)
                /\ first_ret' = FirstRetAfterGet(first_ret, assigned, id, p)
                /\ tret' = [ tret EXCEPT
                               ![Caller] = GetReturn(assigned, id, p) ]
                /\ done_calls' =
                      Append(done_calls,
                             [ by |-> Caller, op |-> "get", id |-> id,
                               path |-> GetReturn(assigned, id, p),
                               hit |-> AlreadyAssigned(assigned, id),
                               exc |-> FALSE ])
          /\ thit' = [ thit EXCEPT ![Caller] = AlreadyAssigned(assigned, id) ]
          /\ targ' = [ targ EXCEPT ![Caller] = id ]
    /\ top' = [ top EXCEPT ![Caller] = "get" ]
    /\ texc' = [ texc EXCEPT ![Caller] = FALSE ]
    /\ tcalls' = [ tcalls EXCEPT ![Caller] = @ + 1 ]
    /\ UNCHANGED << startVars, postVars, now, schedule, loopVars, rawVars, queryVars, gateVars, segments,
                    segSize, uploads, failed_jobs, raised_at, tpc, tsel, lock >>

\* get_segment(id) raises ValueError, lines 59 and 68-69
CycleGetRaise ==
    /\ Len(done_calls) < MaxOps
    /\ \E id \in StoryIds :
          /\ GetRaises(segments, segSize, assigned, id)
          /\ targ' = [ targ EXCEPT ![Caller] = id ]
          /\ done_calls' =
                Append(done_calls,
                       [ by |-> Caller, op |-> "get", id |-> id,
                         path |-> NoSeg, hit |-> FALSE, exc |-> TRUE ])
    /\ top' = [ top EXCEPT ![Caller] = "get" ]
    /\ texc' = [ texc EXCEPT ![Caller] = TRUE ]
    /\ tret' = [ tret EXCEPT ![Caller] = NoSeg ]
    /\ thit' = [ thit EXCEPT ![Caller] = FALSE ]
    /\ tcalls' = [ tcalls EXCEPT ![Caller] = @ + 1 ]
    /\ UNCHANGED << startVars, postVars, now, schedule, loopVars, poolVars, rawVars, queryVars, gateVars,
                    histVars, tpc, tsel, lock >>

\* consume_segment(id) for the story whose segment was just returned
CycleConsume ==
    /\ Len(done_calls) < MaxOps
    /\ top[Caller] = "get"
    /\ ~ texc[Caller]
    /\ tret[Caller] # NoSeg
    /\ assigned' = AssignedAfterConsume(assigned, targ[Caller])
    /\ segments' = SegmentsAfterConsume(segments, assigned, targ[Caller])
    /\ first_ret' = FirstRetAfterConsume(first_ret, targ[Caller])
    /\ done_calls' =
          Append(done_calls,
                 [ by |-> Caller, op |-> "consume", id |-> targ[Caller],
                   path |-> IF AlreadyAssigned(assigned, targ[Caller])
                            THEN assigned[targ[Caller]] ELSE NoSeg,
                   hit |-> AlreadyAssigned(assigned, targ[Caller]),
                   exc |-> FALSE ])
    /\ top' = [ top EXCEPT ![Caller] = "consume" ]
    /\ thit' = [ thit EXCEPT
                   ![Caller] = AlreadyAssigned(assigned, targ[Caller]) ]
    /\ tret' = [ tret EXCEPT ![Caller] = NoSeg ]
    /\ tcalls' = [ tcalls EXCEPT ![Caller] = @ + 1 ]
    /\ UNCHANGED << startVars, postVars, now, schedule, loopVars, rawVars, queryVars, gateVars, segSize,
                    uploads, failed_jobs, raised_at, tpc, targ, tsel, texc,
                    lock >>

InitCycles ==
    /\ InitCommon
    /\ now \in StartTimes
    /\ schedule = PUBLISHING_SCHEDULE
    /\ pc = "plan"
    /\ segments = ExamplePool
    /\ raw_files = {}

NextCycles == CycleGet \/ CycleGetRaise \/ CycleConsume

SpecCycles == InitCycles /\ [][NextCycles]_vars

-----------------------------------------------------------------------------
(* maintenance_and_setup called again and again, src/main.py:91-106 *)

\* the raw videos an earlier run left in the folder
LeftOvers == { "m1", "m2" }

\* calls of maintenance_and_setup in one behaviour
MaxRuns == 2

EnsureInventory ==
    /\ tcalls[Caller] < MaxRuns
    /\ tcalls' = [ tcalls EXCEPT ![Caller] = @ + 1 ]
    /\ \E D \in Downloads :
       \E last \in LastLines(D) :
       \E oc \in [ Todo(D, last) -> Outcomes ] :
       \E first \in Firsts(Todo(D, last), oc) :
           maintenance_and_setup(D, last, oc, first)
    /\ UNCHANGED << startVars, postVars, now, schedule, loopVars, assigned, queryVars, gateVars, histVars,
                    tpc, top, targ, tsel, tret, texc, thit, done_calls, lock >>

InitSupply ==
    /\ InitCommon
    /\ now \in StartTimes
    /\ schedule = PUBLISHING_SCHEDULE
    /\ pc = "maintain"
    /\ segments = { << "u0", 1 >> }
    /\ raw_files = LeftOvers

NextSupply == EnsureInventory

SpecSupply == InitSupply /\ [][NextSupply]_vars

-----------------------------------------------------------------------------
(* is_segment_high_quality and the body of the segment loop that calls it, *)
(* src/video_segmenter.py:25-80 and 150-169                                *)

\* gray.mean() of a sampled frame and the motion score against the frame
\* read before it, lines 56 and 62
Brightness == { 0, MIN_BRIGHTNESS, MAX_BRIGHTNESS, WHITE }
Motion     == { 0, 2 * MIN_MOTION_SCORE }

\* one sampled frame: cap.read() gave it (ok) or did not, lines 50-53
Samples ==
    { [ ok |-> TRUE, b |-> b, m |-> m ] : b \in Brightness, m \in Motion }
    \cup { [ ok |-> FALSE, b |-> 0, m |-> 0 ] }

\* the first sample has no frame before it
FirstSamples == { x \in Samples : x.m = 0 }

\* the files the segment loop may have written: one that cv2 cannot open,
\* one with fewer frames than are sampled, and those with enough frames
Clips ==
    { [ opens |-> FALSE, frames |-> 0, samples |-> << >> ],
      [ opens |-> TRUE, frames |-> VALIDATION_FRAME_SAMPLES - 1,
        samples |-> << >> ] }
    \cup { [ opens |-> TRUE, frames |-> VALIDATION_FRAME_SAMPLES,
             samples |-> [ i \in 1..VALIDATION_FRAME_SAMPLES |->
                             IF i = 1 THEN f ELSE r[i] ] ] :
             f \in FirstSamples,
             r \in [ 2..VALIDATION_FRAME_SAMPLES -> Samples ] }

RECURSIVE SeqSum(_)
SeqSum(q) == IF q = << >> THEN 0 ELSE Head(q) + SeqSum(Tail(q))

IsRead(x) == x.ok

\* lines 49-53: the frames that were read, `continue` on the others
ReadFrames(c) == SelectSeq(c.samples, IsRead)

\* lines 56 and 59-63
brightness_values(c) ==
    [ i \in 1..Len(ReadFrames(c)) |-> ReadFrames(c)[i].b ]

motion_scores(c) ==
    [ i \in 1..(Len(ReadFrames(c)) - 1) |-> ReadFrames(c)[i + 1].m ]

\* lines 69-70: np.mean of no value is nan, which is in no range
InBand(bs) ==
    /\ bs # << >>
    /\ MIN_BRIGHTNESS * Len(bs) <= SeqSum(bs)
    /\ SeqSum(bs) <= MAX_BRIGHTNESS * Len(bs)

\* A gate that does not look at motion.
EnoughMotion_NotChecked(ms) == TRUE

\* line 74
EnoughMotion(ms) ==
    ms = << >> \/ ~ ( SeqSum(ms) < MIN_MOTION_SCORE * Len(ms) )

is_segment_high_quality(c) ==
    IF ~ ENABLE_QUALITY_VALIDATION THEN << TRUE, "Validation disabled" >>
    ELSE IF ~ c.opens THEN << FALSE, "Cannot open video" >>
    ELSE IF c.frames < VALIDATION_FRAME_SAMPLES THEN << FALSE, "Too short" >>
    ELSE IF ~ InBand(brightness_values(c))
         THEN << FALSE, "Brightness out of range" >>
    ELSE IF ~ EnoughMotion(motion_scores(c))
         THEN << FALSE, "Insufficient motion" >>
    ELSE << TRUE, "OK" >>

\* the segment the loop is cutting
GatePath == << "m1", 1 >>

\* lines 151-161: ffmpeg writes the candidate into the folder of segments
CutCandidate ==
    /\ cand = NoSeg
    /\ GatePath \notin segments
    /\ \E c \in Clips : clip' = c
    /\ cand' = GatePath
    /\ verdict' = NoVerdict
    /\ segments' = segments \cup { GatePath }
    /\ segSize' = [ segSize EXCEPT ![GatePath] = MIN_SEGMENT_SIZE_BYTES ]
    /\ UNCHANGED << startVars, postVars, now, schedule, loopVars, assigned, rawVars, threadVars,
                    queryVars, histVars >>

\* A gate that unlinks the file it refuses.
Evaluate_UnlinksRefused ==
    /\ cand # NoSeg
    /\ verdict = NoVerdict
    /\ verdict' = is_segment_high_quality(clip)
    /\ segments' = IF verdict'[1] THEN segments ELSE segments \ { cand }
    /\ UNCHANGED << startVars, postVars, now, schedule, loopVars, segSize, assigned, rawVars,
                    threadVars, queryVars, histVars, cand, clip >>

\* line 164: is_valid, reason = is_segment_high_quality(segment_path)
Evaluate ==
    /\ cand # NoSeg
    /\ verdict = NoVerdict
    /\ verdict' = is_segment_high_quality(clip)
    /\ UNCHANGED << startVars, postVars, now, schedule, loopVars, poolVars, rawVars, threadVars,
                    queryVars, histVars, cand, clip >>

\* lines 165-169: the caller unlinks a refused candidate
Dispose ==
    /\ cand # NoSeg
    /\ verdict # NoVerdict
    /\ segments' = IF verdict[1] THEN segments ELSE segments \ { cand }
    /\ cand' = NoSeg
    /\ clip' = NoClip
    /\ verdict' = NoVerdict
    /\ UNCHANGED << startVars, postVars, now, schedule, loopVars, segSize, assigned, rawVars,
                    threadVars, queryVars, histVars >>

InitGate ==
    /\ InitCommon
    /\ now \in StartTimes
    /\ schedule = PUBLISHING_SCHEDULE
    /\ pc = "maintain"
    /\ segments = { << "u0", 1 >> }
    /\ raw_files = { "m1" }

NextGate == CutCandidate \/ Evaluate \/ Dispose

SpecGate == InitGate /\ [][NextGate]_vars

-----------------------------------------------------------------------------
(* maintenance_and_setup on a raw folder near MAX_RAW_VIDEOS_IN_LIBRARY,   *)
(* src/main.py:97-102 and src/video_downloader.py:22-111                   *)

\* raw files earlier calls downloaded and left on disk, all named in the log
KeptOnDisk == { "v0", "w0", "u0", "m1", "m2", "v1" }

RawFolders ==
    { KeptOnDisk, KeptOnDisk \ { "v1" }, KeptOnDisk \ { "v1", "m2" } }

InitDownload ==
    /\ InitButLog
    /\ sessions = {}
    /\ now \in StartTimes
    /\ schedule = PUBLISHING_SCHEDULE
    /\ pc = "maintain"
    /\ segments = { << "u0", 1 >> }
    /\ raw_files \in RawFolders
    /\ log_lines = { << v >> : v \in raw_files }
    /\ log_tail = << >>
    /\ offered = RawIds

NextDownload == EnsureInventory

SpecDownload == InitDownload /\ [][NextDownload]_vars

-----------------------------------------------------------------------------
(* maintenance_and_setup and get_segment in turn, as the cycles of         *)
(* main_loop call them: src/main.py:155-157 and 180                        *)

\* get_segment(id) returns a path, video_assembler.py:54-62; the job of the
\* story does not reach consume_segment.
HoldSegment ==
    /\ \E id \in StoryIds :
          /\ ~ GetRaises(segments, segSize, assigned, id)
          /\ \E p \in GetChoices(segments, segSize, assigned, id) :
                /\ assigned' = AssignedAfterGet(assigned, id, p)
                /\ first_ret' = FirstRetAfterGet(first_ret, assigned, id, p)
    /\ UNCHANGED << startVars, postVars, now, schedule, loopVars, segments, segSize, rawVars,
                    threadVars, queryVars, gateVars, uploads, failed_jobs, raised_at >>

InitHeld ==
    /\ InitCommon
    /\ now \in StartTimes
    /\ schedule = PUBLISHING_SCHEDULE
    /\ pc = "maintain"
    /\ segments = { << "u0", 1 >> }
    /\ raw_files = { "m1" }

NextHeld == EnsureInventory \/ HoldSegment

SpecHeld == InitHeld /\ [][NextHeld]_vars

-----------------------------------------------------------------------------
(* get_next_publish_time asked directly, src/main.py:114-130 *)

\* "HH:MM" strings a schedule may list; int() reads "9" as it reads "09".
SlotStrings ==
    { Str(0,0,0,0), Str(0,8,0,0), Str(1,0,3,0), Str(2,0,0,0), Str(2,3,5,9),
      << 9, COLON, 3, 0 >> }

Schedules ==
    UNION { [ 1..n -> SlotStrings ] : n \in 1..MaxSlots }

\* the instants of a day at which the function is asked
QueryTimes ==
    { 0, 7 * 3600, 8 * 3600, 9 * 3600 + 30 * 60, 10 * 3600 + 30 * 60,
      20 * 3600, 23 * 3600 + 59 * 60, 23 * 3600 + 59 * 60 + 59 }

Query ==
    /\ qresult = NoTime
    /\ qresult' = get_next_publish_time(schedule, now)
    /\ UNCHANGED << startVars, postVars, now, schedule, loopVars, poolVars, rawVars, threadVars,
                    histVars, gateVars >>

\* the clock moves on
Tick ==
    /\ \E t \in QueryTimes : t > now /\ now' = t
    /\ qresult' = NoTime
    /\ UNCHANGED << startVars, postVars, schedule, loopVars, poolVars, rawVars, threadVars,
                    histVars, gateVars >>

InitSched ==
    /\ InitCommon
    /\ now = 0
    /\ schedule \in Schedules
    /\ pc = "plan"
    /\ segments = FullFolder
    /\ raw_files = {}

NextSched == Query \/ Tick

SpecSched == InitSched /\ [][NextSched]_vars

-----------------------------------------------------------------------------
(* Properties of main_loop *)

\* The occurrences of the configured slots on the day of t and the next day.
SlotTimes(sch, t) ==
    { Midnight(t) + k * DAY + HourOf(sch[i]) * 3600 + MinuteOf(sch[i]) * 60 :
        k \in 0..1, i \in 1..Len(sch) }

\* r is the earliest slot occurrence strictly after t.
IsNextSlot(sch, t, r) ==
    /\ r \in SlotTimes(sch, t)
    /\ r > t
    /\ \A x \in SlotTimes(sch, t) : x > t => r <= x

Tolerance == PUBLISH_TOLERANCE_MINUTES * 60

Steps ==
    { "plan", "maintain", "fetch", "wait_empty", "script", "audio", "assign",
      "assemble", "publish", "cooldown", "except" }

\* C2: in every step of the loop, an assignment entry is removed or a working
\* directory is deleted only by a step whose upload returned a video id, and
\* that step removes the story's entry, its segment file and its directory;
\* a step whose upload failed leaves the segment files, the assignment map
\* and the working directories unchanged.
C2_CleanupIffPublished ==
    [][ LET gone  == DOMAIN assigned \ DOMAIN assigned'
            dirs  == story_folders \ story_folders'
            calls == uploads' \ uploads
        IN  /\ ( gone # {} \/ dirs # {} ) =>
                 \E u \in calls : u.ok /\ gone = { u.story } /\ dirs = { u.story }
            /\ \A u \in calls :
                 u.ok => /\ u.story \in DOMAIN assigned
                         /\ u.story \notin DOMAIN assigned'
                         /\ assigned[u.story] \notin segments'
                         /\ u.story \notin story_folders'
            /\ \A u \in calls :
                 ~ u.ok => /\ UNCHANGED << segments, segSize, assigned,
                                          story_folders >>
                           /\ u.story \in DOMAIN assigned
                           /\ u.story \in story_folders
      ]_vars

\* C2 witness: one upload has failed and left its segment, entry and
\* directory in place, and another has succeeded.
C2_Witness ==
    \E u \in uploads : \E w \in uploads :
        /\ ~ u.ok /\ w.ok
        /\ u.story \in DOMAIN assigned
        /\ u.story \in story_folders
        /\ w.story \notin DOMAIN assigned
        /\ w.story \notin story_folders

\* C3: the segment of a failed job stays assigned to it, its file stays in the
\* pool, and no other story holds it.
C3_FailedJobKeepsSegment ==
    \A s \in failed_jobs :
        /\ s \in DOMAIN assigned
        /\ assigned[s] \in segments
        /\ \A r \in DOMAIN assigned \ { s } : assigned[r] # assigned[s]

\* C5: every upload whose completion is at or after the target by at most the
\* tolerance is a publish-now (no scheduled time), and an upload one minute
\* beyond the tolerance carries a scheduled time ahead of it.
C5_WithinTolerancePublishesNow ==
    \A u \in uploads :
        /\ ( u.at >= u.target /\ u.at - u.target <= Tolerance )
              => u.publish_at = NoTime
        /\ ( u.at - u.target = Tolerance + 60 )
              => ( u.publish_at # NoTime /\ u.publish_at > u.at )

\* C5 witness: an upload decided exactly at the end of the tolerance window.
C5_Witness ==
    \E u \in uploads : u.at - u.target = Tolerance /\ u.publish_at = NoTime

\* C6: every upload completed before its target carries that target, the
\* slot computed at PLAN, as its scheduled time.
C6_EarlyKeepsTarget ==
    \A u \in uploads :
        u.at < u.target =>
            /\ u.publish_at = u.target
            /\ u.publish_at # NoTime
            /\ u.target \in SlotTimes(schedule, u.at)

\* C6 witness: an upload completed before its target.
C6_Witness ==
    \E u \in uploads : u.at < u.target /\ u.publish_at = u.target

\* C7: every upload completed later than target + tolerance is scheduled for
\* the earliest slot after its completion, never published at once and never
\* scheduled for the missed target; with slots 08:00 and 20:00, target 08:00
\* and completion 09:00 that is 20:00 of the same day.
C7_LateReschedules ==
    \A u \in uploads :
        /\ u.at - u.target > Tolerance =>
              /\ u.publish_at # NoTime
              /\ u.publish_at # u.target
              /\ IsNextSlot(schedule, u.at, u.publish_at)
        /\ ( schedule = ExampleSchedule /\ u.target = 8 * 3600
             /\ u.at = 9 * 3600 ) => u.publish_at = 20 * 3600

\* C7 witness: the example, target 08:00 and completion 09:00.
C7_Witness ==
    \E u \in uploads :
        /\ schedule = ExampleSchedule
        /\ u.target = 8 * 3600
        /\ u.at = 9 * 3600
        /\ u.publish_at = 20 * 3600

\* C8: an exception raised in any step of the cycle is followed by the fixed
\* backoff and then PLAN; the loop never leaves its steps, and the end of
\* a cycle, the cooldown, goes nowhere but to PLAN or to the handler.
C8_ResilientLoop ==
    /\ [][ pc = "except" => ( pc' = "plan" /\ now' = now + BACKOFF ) ]_vars
    /\ [][ pc' = "except" => raised_at' = pc ]_vars
    /\ [][ pc = "cooldown" => pc' \in { "plan", "except" } ]_vars
    /\ [] ( pc \in Steps )
    /\ [] ( pc = "except" => <> ( pc = "plan" ) )

\* C8 witness: get_segment has raised and the handler is about to back off.
C8_Witness ==
    pc = "except" /\ raised_at = "assign"

-----------------------------------------------------------------------------
(* Properties of the SegmentManager *)

\* C1: while the folder holds at least two segments that are large enough,
\* no segment path is the assignment of two different story ids.
C1_ExclusiveAssignment ==
    Cardinality(Available(segments, segSize)) >= 2 =>
        \A s1, s2 \in DOMAIN assigned :
            s1 # s2 => assigned[s1] # assigned[s2]

\* C9: a get_segment(id) that finds id assigned returns the path the first
\* call returned, raises nothing, and leaves the assignment map and the
\* segment files as they were; an assigned id always maps to that path.
C9_AssignIdempotent ==
    /\ [][ \A t \in Threads :
             ( /\ tpc[t] \in { "locked", "selected" }
               /\ top[t] = "get"
               /\ targ[t] \in DOMAIN assigned
               /\ tpc'[t] = "idle" )
             => ( /\ tret'[t] = assigned[targ[t]]
                  /\ tret'[t] = first_ret[targ[t]]
                  /\ ~ texc'[t]
                  /\ assigned' = assigned
                  /\ segments' = segments
                  /\ segSize' = segSize ) ]_vars
    /\ [] ( \A s \in DOMAIN assigned : assigned[s] = first_ret[s] )

\* C9 witness: a story was assigned a segment, and a later get_segment for
\* it, with no consume between the two, returned the same path.
C9_Witness ==
    \E i, j \in 1..Len(done_calls) :
        /\ i < j
        /\ done_calls[i].op = "get" /\ ~ done_calls[i].hit
        /\ ~ done_calls[i].exc
        /\ done_calls[j].op = "get" /\ done_calls[j].hit
        /\ done_calls[j].id = done_calls[i].id
        /\ done_calls[j].path = done_calls[i].path
        /\ \A k \in (i + 1)..(j - 1) :
              ~ ( done_calls[k].op = "consume"
                  /\ done_calls[k].id = done_calls[i].id )

\* C10: consume_segment(id) raises nothing; when id is assigned it removes
\* the entry of id and no other, and the assigned file is gone from the
\* folder and no other file is; when id is not assigned it changes neither
\* the map nor the folder.
C10_ConsumeRemovesOnce ==
    [][ \A t \in Threads :
          ( /\ tpc[t] = "locked"
            /\ top[t] = "consume"
            /\ tpc'[t] = "idle" )
          => ( /\ ~ texc'[t]
               /\ targ[t] \notin DOMAIN assigned'
               /\ IF targ[t] \in DOMAIN assigned
                  THEN /\ DOMAIN assigned' = DOMAIN assigned \ { targ[t] }
                       /\ \A s \in DOMAIN assigned' :
                             assigned'[s] = assigned[s]
                       /\ assigned[targ[t]] \notin segments'
                       /\ segments' = segments \ { assigned[targ[t]] }
                  ELSE /\ assigned' = assigned
                       /\ segments' = segments ) ]_vars

\* C10 witness: a consume removed the entry and the file of a story, and a
\* later consume of the same story, no get_segment between, found nothing.
C10_Witness ==
    \E i, j \in 1..Len(done_calls) :
        /\ i < j
        /\ done_calls[i].op = "consume" /\ done_calls[i].hit
        /\ done_calls[i].path \notin segments
        /\ done_calls[j].op = "consume" /\ ~ done_calls[j].hit
        /\ ~ done_calls[j].exc
        /\ done_calls[j].id = done_calls[i].id
        /\ done_calls[j].by # done_calls[i].by

-----------------------------------------------------------------------------
(* Properties of get_next_publish_time *)

\* C4: for every non-empty schedule, in any order, and every instant, the
\* time returned is an occurrence of a configured slot strictly after the
\* instant, and no occurrence of a slot lies between the two.
C4_NextSlotMinimal ==
    qresult # NoTime => IsNextSlot(schedule, now, qresult)

\* C11: no get_segment call returns a file smaller than
\* MIN_SEGMENT_SIZE_BYTES, whatever the folder holds and whatever the story,
\* and no story is assigned such a file.
C11_NeverUndersized ==
    /\ \A i \in 1..Len(done_calls) :
          ( done_calls[i].op = "get" /\ ~ done_calls[i].exc )
             => segSize[done_calls[i].path] >= MIN_SEGMENT_SIZE_BYTES
    /\ \A s \in DOMAIN assigned :
          segSize[assigned[s]] >= MIN_SEGMENT_SIZE_BYTES

\* C11 witness: get_segment returned a file while the folder held a smaller
\* one to choose from.
C11_Witness ==
    \E i \in 1..Len(done_calls) :
        /\ done_calls[i].op = "get" /\ ~ done_calls[i].exc
        /\ ~ done_calls[i].hit
        /\ \E p \in segments : segSize[p] < MIN_SEGMENT_SIZE_BYTES

\* the files of the folder that are large enough to be assigned
Eligible == { p \in segments : segSize[p] >= MIN_SEGMENT_SIZE_BYTES }

\* the first 2n calls are n times get_segment(id) returning a fresh
\* assignment followed by consume_segment(id) removing it
AssignConsumeCycles(n) ==
    /\ Len(done_calls) >= 2 * n
    /\ \A k \in 1..n :
          /\ done_calls[2 * k - 1].op = "get"
          /\ ~ done_calls[2 * k - 1].exc
          /\ ~ done_calls[2 * k - 1].hit
          /\ done_calls[2 * k].op = "consume"
          /\ done_calls[2 * k].hit
          /\ done_calls[2 * k].id = done_calls[2 * k - 1].id

\* C12: get_segment for a story without an entry raises exactly when no
\* file of the folder is large enough; a call that raises changes neither
\* the assignment map nor the folder; from three usable segments and one
\* truncated file, three assign+consume cycles leave no usable segment and
\* the get_segment that follows raises.
C12_FailsIffNoneEligible ==
    /\ [][ ( Len(done_calls') = Len(done_calls) + 1
             /\ done_calls'[Len(done_calls')].op = "get" )
           => LET c == done_calls'[Len(done_calls')]
              IN  /\ ( c.id \notin DOMAIN assigned )
                        => ( c.exc <=> Eligible = {} )
                  /\ ( c.id \in DOMAIN assigned ) => ~ c.exc
                  /\ c.exc => ( /\ assigned' = assigned
                                /\ segments' = segments
                                /\ segSize' = segSize )
                  /\ ~ c.exc => c.id \in DOMAIN assigned' ]_vars
    /\ [] ( AssignConsumeCycles(3)
              => /\ Eligible = {}
                 /\ segments = { << "u0", 1 >> }
                 /\ \A i \in 7..Len(done_calls) :
                       done_calls[i].op = "get" => done_calls[i].exc )

\* C12 witness: the three cycles are done and a fourth get_segment raised.
C12_Witness ==
    /\ AssignConsumeCycles(3)
    /\ Len(done_calls) = 7
    /\ done_calls[7].op = "get"
    /\ done_calls[7].exc
    /\ assigned = NoAssignment

-----------------------------------------------------------------------------
(* Properties of main_loop, continued *)

\* a step calls upload_to_youtube, or removes an assignment entry
Publishes == uploads' # uploads
Consumes  == \E s \in DOMAIN assigned : s \notin DOMAIN assigned'

\* C13: upload_to_youtube is called and an entry is consumed only by the
\* publish step of a cycle whose output file exists and has more than 1024
\* bytes; a cycle ended by a failed script or a failed audio generation, or
\* by a missing or too small output file, goes on to the next without
\* either, the folder and the assignment map as they were.
C13_NoPublishWithoutOutput ==
    /\ [][ ( Publishes \/ Consumes )
             => ( /\ pc = "publish"
                  /\ output_size # NoFile
                  /\ output_size > 1024 ) ]_vars
    /\ [][ ( pc \in { "script", "audio" } /\ pc' = "plan" )
             => ( ~ Publishes /\ ~ Consumes /\ segments' = segments
                  /\ assigned' = assigned ) ]_vars
    /\ [][ ( pc = "publish"
             /\ ( output_size = NoFile \/ output_size < 1024 ) )
             => ( /\ ~ Publishes /\ ~ Consumes
                  /\ segments' = segments /\ assigned' = assigned
                  /\ pc' \in { "cooldown", "except" } ) ]_vars

\* C13 witness: the cycle of a story ended with an output file of 1023
\* bytes; the story holds its segment and nothing was uploaded for it.
C13_Witness ==
    /\ pc = "cooldown"
    /\ output_size = OUTPUT_FLOOR - 1
    /\ story_id \in DOMAIN assigned
    /\ assigned[story_id] \in segments
    /\ \A u \in uploads : u.story # story_id

\* C14: when get_best_stories returns no story, nothing is assigned,
\* produced or uploaded; the loop sleeps 900 seconds and is at PLAN again,
\* and the handler of unexpected errors is not entered.
C14_EmptySourceSkipsCycle ==
    /\ [][ ( pc = "fetch" /\ pc' = "wait_empty" )
             => ( /\ assigned' = assigned /\ segments' = segments
                  /\ uploads' = uploads /\ story_folders' = story_folders
                  /\ processed_ids' = processed_ids /\ now' = now
                  /\ raised_at' = raised_at ) ]_vars
    /\ [][ pc = "wait_empty"
             => ( /\ pc' = "plan"
                  /\ now' = now + 900
                  /\ assigned' = assigned /\ segments' = segments
                  /\ uploads' = uploads /\ story_folders' = story_folders
                  /\ processed_ids' = processed_ids
                  /\ raised_at' = raised_at ) ]_vars
    /\ [] ( pc = "wait_empty" => <> ( pc = "plan" ) )

\* C14 witness: no story was ever returned, the loop waited once and is
\* at PLAN, with nothing assigned, nothing uploaded and no error handled.
C14_Witness ==
    /\ pc = "plan"
    /\ now = 7 * 3600 + 900
    /\ processed_ids = {}
    /\ assigned = NoAssignment
    /\ uploads = {}
    /\ raised_at = None

\* C15: when get_segment finds no file large enough for the story, the
\* cycle is given up like one without a story: the loop waits and is at
\* PLAN again, and the handler of unexpected errors and its backoff are
\* not entered.
C15_NoInventoryIsTransient ==
    [][ ( /\ pc = "assign"
          /\ story_id \notin DOMAIN assigned
          /\ \A p \in segments : segSize[p] < MIN_SEGMENT_SIZE_BYTES )
        => ( pc' # "except" /\ raised_at' = raised_at ) ]_vars

\* C16: a run of maintenance_and_setup segments every raw video that is in
\* the folder after its download step.  A video the log names as processed
\* is never looked at again (video_segmenter.py:111), so no run leaves a
\* file in the raw folder whose id is a line of the log.
C16_RawSegmentedInSameCall ==
    [][ ( pc = "maintain" /\ maintained' )
        => \A v \in raw_files' : << v >> \notin LogIds(log_lines', log_tail') ]_vars

\* C17: the log of processed videos only grows: an id that is a line of
\* the log is a line of it after every step, and every id recorded by a
\* step is a line of its own.
C17_LogAppendOnly ==
    [][ LogIds(log_lines, log_tail) \subseteq LogIds(log_lines', log_tail') ]_vars

\* C18: no video is handled twice: none is downloaded a second time and
\* none is cut into segments and logged a second time.
C18_NoSourceHandledTwice ==
    \A v \in Stems : times_downloaded[v] <= 1 /\ times_segmented[v] <= 1

\* C19: a raw video that the segmenter finds too short after trimming is
\* deleted: it is not in the raw folder once that run is over.
C19_TooShortIsDeleted ==
    \A v \in DOMAIN batch : batch[v].kind = "short" => v \notin raw_files

C22_MaintenanceKeepsAssigned ==
    [][ pc = "maintain"
        => \A s \in DOMAIN assigned :
              assigned[s] \in segments => assigned[s] \in segments' ]_vars

\* C23: the cycle passes MAINTAIN to the story search having called
\* maintenance_and_setup exactly when the folder held fewer files than
\* MIN_SEGMENTS_IN_LIBRARY; the call happens nowhere but at MAINTAIN, with
\* the story of the cycle not yet fetched and no segment assigned by it.
C23_MaintainGating ==
    /\ [][ ( pc = "maintain" /\ pc' = "fetch" )
           => ( maintained' <=> Cardinality(segments) < MIN_SEGMENTS_IN_LIBRARY ) ]_vars
    /\ [][ ( maintained' /\ ~ maintained )
           => /\ pc = "maintain" /\ pc' = "fetch"
              /\ UNCHANGED << assigned, story_id, processed_ids, story_folders,
                              uploads >> ]_vars
    /\ [][ ( << segments, raw_files, log_lines, log_tail, batch >> #
             << segments', raw_files', log_lines', log_tail', batch' >>
             /\ pc # "publish" )
           => ( pc = "maintain" /\ maintained' ) ]_vars
    /\ [] ( pc \in { "fetch", "wait_empty", "script", "audio", "assign" } /\ ~ maintained
            => Cardinality(segments) >= MIN_SEGMENTS_IN_LIBRARY )

\* C23 witness: the folder is short of files, maintenance ran in this
\* cycle and the cycle is about to ask for a segment.
C23_Witness ==
    /\ pc = "assign"
    /\ maintained
    /\ Cardinality(segments) < MIN_SEGMENTS_IN_LIBRARY
    /\ story_id \notin DOMAIN assigned

AllRead(c) == \A i \in 1..Len(c.samples) : c.samples[i].ok

SumOfBrightness(c) ==
    SeqSum([ i \in 1..Len(c.samples) |-> c.samples[i].b ])

SumOfMotion(c) ==
    SeqSum([ i \in 1..(Len(c.samples) - 1) |-> c.samples[i + 1].m ])

\* C25: of the files cv2 opens, one with fewer frames than are sampled is
\* refused as too short; one with enough frames, all read, is accepted
\* exactly when the mean brightness of the samples is within
\* [MIN_BRIGHTNESS, MAX_BRIGHTNESS] and the mean motion score of the
\* adjacent pairs is at least MIN_MOTION_SCORE.  An all-black, an all-white
\* and a frozen clip are refused.
C25_GateVerdict ==
    ( verdict # NoVerdict /\ clip.opens )
    => /\ clip.frames < VALIDATION_FRAME_SAMPLES
            => verdict = << FALSE, "Too short" >>
       /\ ( clip.frames >= VALIDATION_FRAME_SAMPLES /\ AllRead(clip) )
            => /\ verdict[1] <=>
                    /\ MIN_BRIGHTNESS * VALIDATION_FRAME_SAMPLES
                          <= SumOfBrightness(clip)
                    /\ SumOfBrightness(clip)
                          <= MAX_BRIGHTNESS * VALIDATION_FRAME_SAMPLES
                    /\ SumOfMotion(clip)
                          >= MIN_MOTION_SCORE * (VALIDATION_FRAME_SAMPLES - 1)
               /\ ( \A i \in 1..Len(clip.samples) : clip.samples[i].b = 0 )
                     => ~ verdict[1]
               /\ ( \A i \in 1..Len(clip.samples) : clip.samples[i].b = WHITE )
                     => ~ verdict[1]
               /\ ( \A i \in 1..Len(clip.samples) : clip.samples[i].m = 0 )
                     => ~ verdict[1]

\* C25 witness: a clip of mixed brightness whose mean motion is exactly
\* MIN_MOTION_SCORE was accepted.
C25_Witness ==
    /\ verdict = << TRUE, "OK" >>
    /\ clip.opens /\ AllRead(clip)
    /\ SumOfMotion(clip) = MIN_MOTION_SCORE * (VALIDATION_FRAME_SAMPLES - 1)
    /\ \E i \in 1..Len(clip.samples) : clip.samples[i].b = MAX_BRIGHTNESS
    /\ \E i \in 1..Len(clip.samples) : clip.samples[i].b = 0

\* C26: a clip one of whose sampled frames could not be read is refused.
C26_ReadFailureRejects ==
    ( /\ verdict # NoVerdict
      /\ clip.opens
      /\ clip.frames >= VALIDATION_FRAME_SAMPLES
      /\ \E i \in 1..Len(clip.samples) : ~ clip.samples[i].ok )
    => ~ verdict[1]

\* C27: the step in which is_segment_high_quality returns changes no file,
\* no assignment and no log; a file leaves the folder only in the step of
\* the caller that follows a refusal.
C27_GateHasNoSideEffect ==
    /\ [][ ( verdict = NoVerdict /\ verdict' # NoVerdict )
           => UNCHANGED << segments, segSize, assigned, raw_files, log_lines,
                           log_tail, cand, clip, processed_ids >> ]_vars
    /\ [][ ( segments' # segments /\ cand \notin segments' /\ cand # NoSeg )
           => ( verdict # NoVerdict /\ ~ verdict[1] /\ cand' = NoSeg ) ]_vars

\* C27 witness: the gate has refused the candidate and the file is still in
\* the folder.
C27_Witness ==
    /\ verdict # NoVerdict
    /\ ~ verdict[1]
    /\ cand # NoSeg
    /\ cand \in segments

\* C28: the cooldown sleeps max(60, time to the next slot - 3600) seconds:
\* never less than 60, and when the next slot is more than 3660 seconds
\* away the loop wakes 3600 seconds before it.
C28_CooldownDuration ==
    [][ ( pc = "cooldown" /\ pc' = "plan" )
        => /\ \E r \in SlotTimes(schedule, now) : IsNextSlot(schedule, now, r)
           /\ \A r \in SlotTimes(schedule, now) :
                 IsNextSlot(schedule, now, r)
                 => /\ now' - now >= SLEEP_FLOOR
                    /\ r - now - LEAD_TIME > SLEEP_FLOOR
                          => now' = r - LEAD_TIME
                    /\ r - now - LEAD_TIME <= SLEEP_FLOOR
                          => now' = now + SLEEP_FLOOR ]_vars

\* C28 witness: the cycle ended at 07:30, half an hour before the slot of
\* 08:00, and the loop slept the floor of 60 seconds.
C28_Witness ==
    /\ pc = "plan"
    /\ now = 7 * 3600 + 1800 + SLEEP_FLOOR
    /\ story_id # NoStory

-----------------------------------------------------------------------------
\* Startup: ensure_directories, clean_old_sessions, main_loop
\* (src/main.py:235-238).  A name is the sequence of its characters.

MAX_SESSIONS_TO_KEEP == 5

Digits == << "0", "1", "2", "3", "4", "5", "6", "7", "8", "9" >>

IsDigit(c) == \E i \in 1..10 : Digits[i] = c

\* the code point of a character, the order Python compares strings by
CodePoint(c) ==
    IF IsDigit(c) THEN 47 + ( CHOOSE i \in 1..10 : Digits[i] = c )
    ELSE CASE c = "\n" -> 10
           [] c = "_" -> 95
           [] c = "m" -> 109
           [] c = "p" -> 112
           [] c = "t" -> 116

\* str.__lt__: the first differing character decides, a proper prefix is less
NameLess(a, b) ==
    \E i \in 1..( Len(a) + 1 ) :
        /\ \A j \in 1..( i - 1 ) : j <= Len(b) /\ a[j] = b[j]
        /\ \/ i = Len(a) + 1 /\ Len(b) >= i
           \/ i <= Len(a) /\ i <= Len(b)
              /\ CodePoint(a[i]) < CodePoint(b[i])

\* line 64: re.compile(r"^\d{8}_\d{6}$").match(name); `$` also matches just
\* before a newline that ends the string
session_pattern(name) ==
    LET body == IF Len(name) = 16 /\ name[16] = "\n"
                THEN SubSeq(name, 1, 15) ELSE name
    IN  /\ Len(body) = 15
        /\ \A i \in 1..8 : IsDigit(body[i])
        /\ body[9] = "_"
        /\ \A i \in 10..15 : IsDigit(body[i])

\* lines 65-68: the directories whose name matches
valid_sessions(entries) ==
    { d \in entries : d.kind = "dir" /\ session_pattern(d.name) }

\* line 70: valid_sessions[MAX_SESSIONS_TO_KEEP:] of the list sorted in
\* reverse, the entries with at least that many greater names before them
to_delete(entries) ==
    LET valid == valid_sessions(entries)
    IN  { d \in valid :
            Cardinality({ e \in valid : NameLess(d.name, e.name) })
               >= MAX_SESSIONS_TO_KEEP }

\* strftime("%Y%m%d_%H%M%S") of 12:00:00 on day d of January 2024
SessionName(d) ==
    << "2", "0", "2", "4", "0", "1", "0", d, "_",
       "1", "2", "0", "0", "0", "0" >>

\* what the sessions folder may hold when the program starts: sessions of
\* earlier runs and entries the program did not make
FolderEntries ==
    { [ name |-> SessionName(Digits[i]), kind |-> "dir" ] : i \in 2..8 }
    \cup { [ name |-> SessionName("0") \o << "\n" >>, kind |-> "dir" ],
           [ name |-> << "t", "m", "p" >>, kind |-> "dir" ],
           [ name |-> << "2", "0", "2", "4" >>, kind |-> "dir" ],
           [ name |-> SessionName("8"), kind |-> "file" ] }

\* lines 58-77: clean_old_sessions; shutil.rmtree of a directory either
\* removes it or raises OSError, which line 76 catches
clean_old_sessions ==
    /\ pc = "boot"
    /\ \E failed \in SUBSET to_delete(sessions) :
          sessions' = sessions \ ( to_delete(sessions) \ failed )
    /\ pc' = "pruned"
    /\ UNCHANGED << now, schedule, target_publish_time, story_id, output_ok,
                    output_size, story_folders, processed_ids, maintained,
                    poolVars, rawVars, threadVars, queryVars, gateVars,
                    histVars, postVars >>

\* lines 134-135: main_loop makes the folder of this run, named by the clock
StartSession ==
    /\ pc = "pruned"
    /\ sessions' = sessions \cup { [ name |-> SessionName("9"), kind |-> "dir" ] }
    /\ pc' = "plan"
    /\ UNCHANGED << now, schedule, target_publish_time, story_id, output_ok,
                    output_size, story_folders, processed_ids, maintained,
                    poolVars, rawVars, threadVars, queryVars, gateVars,
                    histVars, postVars >>

InitSessions ==
    /\ InitButLog
    /\ log_lines = { << "v0" >> }
    /\ log_tail = << >>
    /\ offered = { "v1" }
    /\ now = 7 * 3600
    /\ schedule = PUBLISHING_SCHEDULE
    /\ pc = "boot"
    /\ segments = {}
    /\ raw_files = {}
    /\ sessions \in SUBSET FolderEntries

NextSessions == clean_old_sessions \/ StartSession

SpecSessions == InitSessions /\ [][NextSessions]_vars

\* a name of the form YYYYMMDD_HHMMSS: eight digits, "_", six digits
IsSessionName(name) ==
    /\ Len(name) = 15
    /\ \A i \in ( 1..15 ) \ { 9 } : IsDigit(name[i])
    /\ name[9] = "_"

SessionDirs(entries) ==
    { d \in entries : d.kind = "dir" /\ IsSessionName(d.name) }

\* C29: pruning leaves, of the directories named YYYYMMDD_HHMMSS, exactly
\* the five most recent; every removed one is older than every kept one;
\* a directory with another name and an entry that is not a directory stay.
C29_SessionPruning ==
    [][ ( pc = "boot" /\ pc' = "pruned" )
        => /\ \A d \in SessionDirs(sessions) :
                 d \in sessions'
                 <=> Cardinality({ e \in SessionDirs(sessions) :
                                     NameLess(d.name, e.name) })
                        < MAX_SESSIONS_TO_KEEP
           /\ \A d \in SessionDirs(sessions) \ sessions' :
                 \A e \in SessionDirs(sessions') : NameLess(d.name, e.name)
           /\ \A d \in sessions :
                 ( d.kind # "dir" \/ ~ IsSessionName(d.name) )
                 => d \in sessions' ]_vars

-----------------------------------------------------------------------------
\* RedditScraper: the processed-post log and get_best_stories
\* (src/reddit_scraper.py:35-58, 132-200), as main_loop calls it.

MIN_POST_TEXT_LENGTH == 80
POST_SCORE_WEIGHT == 1
COMMENT_SCORE_WEIGHT == 1
NUM_STORIES == 1         \* main.py:161, get_best_stories(num_stories=1)
MaxListed == 2           \* posts one listing holds

\* a validity test that does not look at the processed ids
is_valid_post_IgnoresLog(post, ids) ==
    /\ ~ post.stickied
    /\ post.is_self
    /\ post.text_len >= MIN_POST_TEXT_LENGTH

\* lines 132-144; "[removed]" and "[deleted]" are nine characters long and
\* fail the length test
is_valid_post(post, ids) ==
    /\ post.id \notin ids
    /\ ~ post.stickied
    /\ post.is_self
    /\ post.text_len >= MIN_POST_TEXT_LENGTH

\* lines 47-52: set(read_text().splitlines()); a missing file is the empty
\* sequence
load_processed_posts(file) == { file[i] : i \in 1..Len(file) }

\* lines 187-188
PostScore(post) ==
    post.score * POST_SCORE_WEIGHT + post.num_comments * COMMENT_SCORE_WEIGHT

\* lines 177-189: the candidates in the order they are appended; a listing
\* is not read once three times num_stories candidates are there
RECURSIVE Candidates(_, _, _, _, _)
Candidates(l, ids, n, i, acc) ==
    IF i > Len(TimeFilters) \/ Len(acc) >= n * 3
    THEN acc
    ELSE Candidates(l, ids, n, i + 1,
                    acc \o SelectSeq(l[i], LAMBDA p : is_valid_post(p, ids)))

\* line 192: list.sort(key = score, reverse = True) is stable, candidates of
\* equal score keep their order
InsertByScore(x, ranked) ==
    LET k == Cardinality({ i \in 1..Len(ranked) :
                             PostScore(ranked[i]) >= PostScore(x) })
    IN  SubSeq(ranked, 1, k) \o << x >> \o SubSeq(ranked, k + 1, Len(ranked))

RECURSIVE SortedByScore(_)
SortedByScore(seq) ==
    IF seq = << >> THEN << >>
    ELSE InsertByScore(seq[Len(seq)],
                       SortedByScore(SubSeq(seq, 1, Len(seq) - 1)))

\* lines 169-200: the posts packaged, candidates[:num_stories]
get_best_stories(l, ids, n) ==
    LET candidates == SortedByScore(Candidates(l, ids, n, 1, << >>))
    IN  SubSeq(candidates, 1, IF Len(candidates) < n THEN Len(candidates) ELSE n)

\* the listings of one time filter: posts in some order, none twice
PostLists ==
    { q \in UNION { [ 1..k -> Posts ] : k \in 0..MaxListed } :
        \A i, j \in 1..Len(q) : q[i] = q[j] => i = j }

\* main.py:161-169: stories = get_best_stories(num_stories=1); each packaged
\* post is appended to the file and added to processed_ids
\* (reddit_scraper.py:54-58, 160); main_loop takes stories[0]
GetBestStories ==
    /\ pc = "fetch"
    /\ LET packaged == get_best_stories(listing, processed_ids, NUM_STORIES)
           ids == [ i \in 1..Len(packaged) |-> packaged[i].id ]
       IN  /\ posts_file' = posts_file \o ids
           /\ processed_ids' = processed_ids \cup { ids[i] : i \in 1..Len(ids) }
           /\ stories' = ids
           /\ IF ids = << >>
              THEN UNCHANGED << story_id, story_folders, handed >>
              ELSE /\ story_id' = ids[1]
                   /\ story_folders' = story_folders \cup { ids[1] }
                   /\ handed' = [ handed EXCEPT ![ids[1]] = @ + 1 ]
    /\ UNCHANGED << startVars, listing, saving, now, schedule, pc,
                    target_publish_time, output_ok, output_size, maintained,
                    poolVars, rawVars, threadVars, queryVars, gateVars,
                    histVars >>

\* main.py:146 after the process is started again: RedditScraper() loads the
\* ids from the file (reddit_scraper.py:35-37)
NewScraper ==
    /\ pc = "fetch"
    /\ processed_ids' = load_processed_posts(posts_file)
    /\ story_id' = NoStory
    /\ stories' = << >>
    /\ saving' = NoSaving
    /\ UNCHANGED << startVars, posts_file, listing, handed, now, schedule, pc,
                    target_publish_time, output_ok, output_size,
                    story_folders, maintained, poolVars, rawVars, threadVars,
                    queryVars, gateVars, histVars >>

\* reddit: one of the three listings changes
ListingChanges ==
    /\ \E i \in 1..Len(TimeFilters), q \in PostLists :
          listing' = [ listing EXCEPT ![i] = q ]
    /\ UNCHANGED << startVars, posts_file, handed, stories, saving, now, schedule, loopVars,
                    poolVars, rawVars, threadVars, queryVars, gateVars,
                    histVars >>

InitStories ==
    /\ InitCommon
    /\ now = 7 * 3600
    /\ schedule = PUBLISHING_SCHEDULE
    /\ pc = "fetch"
    /\ segments = {}
    /\ raw_files = {}

NextStories == GetBestStories \/ NewScraper \/ ListingChanges

SpecStories == InitStories /\ [][NextStories]_vars

\* the ids the file holds, one per line
LoggedIds(file) == { s \in PostIds : \E i \in 1..Len(file) : file[i] = s }

\* C30: a story handed to main_loop was not in the processed-post file when
\* get_best_stories was called and is in it when the call returns; no story
\* id is handed over twice, restarts of the process included.
C30_StoriesAreHandedOnce ==
    [][ \A s \in PostIds :
          handed'[s] > handed[s]
          => /\ s \notin LoggedIds(posts_file)
             /\ s \in LoggedIds(posts_file')
             /\ handed[s] = 0
             /\ handed'[s] = 1 ]_vars

\* C30 witness: both posts were handed over, the process was started again,
\* and reddit lists both of them in every listing.
C30_Witness ==
    /\ handed[1] = 1
    /\ handed[2] = 1
    /\ story_id = NoStory
    /\ processed_ids = { 1, 2 }
    /\ \A i \in 1..Len(TimeFilters) :
          \A s \in { 1, 2 } : \E k \in 1..Len(listing[i]) : listing[i][k].id = s

-----------------------------------------------------------------------------
\* main_loop entered at 06:58, an hour and two minutes before the slot of
\* 08:00.

InitEarly ==
    /\ InitCommon
    /\ now = 6 * 3600 + 58 * 60
    /\ pc = "plan"
    /\ schedule = PUBLISHING_SCHEDULE
    /\ segments \in InitFolders
    /\ raw_files = {}

SpecEarly == InitEarly /\ [][Next]_vars

\* the uploads that succeeded with a scheduled time
Scheduled == { u \in uploads : u.ok /\ u.publish_at # NoTime }

\* C31: no two successful uploads carry the same scheduled time, and after
\* an upload scheduled for a slot the next cycle does not plan for that slot.
C31_NoDoubleScheduledSlot ==
    /\ \A u, w \in Scheduled : u # w => u.publish_at # w.publish_at
    /\ pc = "maintain"
          => \A u \in Scheduled : target_publish_time # u.publish_at

\* the segments get_segment could hand to a new story: files of valid size
\* that no story holds
Handable ==
    { p \in segments :
        /\ segSize[p] >= MIN_SEGMENT_SIZE_BYTES
        /\ \A s \in DOMAIN assigned : assigned[s] # p }

\* C32: when fewer than MIN_SEGMENTS_IN_LIBRARY segments can be handed out
\* at MAINTAIN (undersized files and files held by a story not counted),
\* maintenance_and_setup is called.
C32_ThresholdCountsEligible ==
    [][ ( pc = "maintain" /\ pc' = "fetch"
          /\ Cardinality(Handable) < MIN_SEGMENTS_IN_LIBRARY )
        => maintained' ]_vars

-----------------------------------------------------------------------------
\* get_best_stories called with any num_stories
\* (src/reddit_scraper.py:169-200).

MaxAsked == 2            \* the largest num_stories asked for

\* lines 169-200: get_best_stories(n); every packaged post is appended to
\* the file and added to processed_ids (lines 54-58, 160)
GetStoriesFor(n) ==
    /\ pc = "fetch"
    /\ LET packaged == get_best_stories(listing, processed_ids, n)
           ids == [ i \in 1..Len(packaged) |-> packaged[i].id ]
       IN  /\ posts_file' = posts_file \o ids
           /\ processed_ids' = processed_ids \cup { ids[i] : i \in 1..Len(ids) }
           /\ stories' = ids
    /\ UNCHANGED << startVars, listing, handed, saving, now, schedule, pc,
                    target_publish_time, story_id, story_folders, output_ok,
                    output_size, maintained, poolVars, rawVars, threadVars,
                    queryVars, gateVars, histVars >>

NextFetch ==
    \/ \E n \in 1..MaxAsked : GetStoriesFor(n)
    \/ NewScraper
    \/ ListingChanges

SpecFetch == InitStories /\ [][NextFetch]_vars

\* C33: the ids of the list one get_best_stories call returns are pairwise
\* distinct.
C33_ReturnedIdsDistinct ==
    \A i, j \in 1..Len(stories) : stories[i] = stories[j] => i = j

\* C34: main_loop comes back to PLAN only through a wait: the cooldown of at
\* least 60 seconds, the wait of 900 seconds for stories, or the backoff of
\* 600 seconds (in main_loop every wait is the last step of its cycle).
C34_NoBusyLoop ==
    [][ ( pc # "plan" /\ pc' = "plan" )
        => /\ pc \in { "cooldown", "wait_empty", "except" }
           /\ now' >= now + SLEEP_FLOOR ]_vars

\* the upload_to_youtube calls made for story s
UploadsOf(s) == { u \in uploads : u.story = s }

C36_ScheduledTimeIsFutureSlot ==
    \A u \in uploads :
        u.publish_at # NoTime
        => /\ u.publish_at > u.at
           /\ u.publish_at \in SlotTimes(schedule, u.at)

\* C36 witness: one upload was scheduled for its target, reached early, and
\* one, late beyond the tolerance, for the slot after its target.
C36_Witness ==
    \E u, w \in uploads :
        /\ u.at < u.target /\ u.publish_at = u.target
        /\ w.at > w.target + PUBLISH_TOLERANCE_MINUTES * 60
        /\ w.publish_at # NoTime
        /\ w.publish_at > w.target

-----------------------------------------------------------------------------
\* _save_processed_post statement by statement
\* (src/reddit_scraper.py:54-58), inside get_best_stories(num_stories=1).

\* An append that adds the id to the set and leaves the file alone.
WriteLine_AddsToSet ==
    /\ pc = "fetch"
    /\ saving # NoSaving
    /\ saving[2] = "open"
    /\ processed_ids' = processed_ids \cup { saving[1] }
    /\ saving' = << saving[1], "written" >>
    /\ UNCHANGED << startVars, posts_file, listing, handed, stories, now,
                    schedule, pc, target_publish_time, story_id,
                    story_folders, output_ok, output_size, maintained,
                    poolVars, rawVars, threadVars, queryVars, gateVars,
                    histVars >>

\* lines 169-196 and 146-160: the post chosen is handed to
\* _create_story_package, which calls _save_processed_post(post_id)
SelectPost ==
    /\ pc = "fetch"
    /\ saving = NoSaving \/ saving[2] = "failed"
    /\ LET packaged == get_best_stories(listing, processed_ids, NUM_STORIES)
       IN  /\ packaged # << >>
           /\ saving' = << packaged[1].id, "open" >>
    /\ UNCHANGED << startVars, posts_file, listing, handed, stories, now,
                    schedule, pc, target_publish_time, story_id,
                    story_folders, processed_ids, output_ok, output_size,
                    maintained, poolVars, rawVars, threadVars, queryVars,
                    gateVars, histVars >>

\* lines 56-57: open(PROCESSED_POSTS_FILE, "a") and f.write(post_id + "\n")
WriteLine ==
    /\ pc = "fetch"
    /\ saving # NoSaving
    /\ saving[2] = "open"
    /\ posts_file' = Append(posts_file, saving[1])
    /\ saving' = << saving[1], "written" >>
    /\ UNCHANGED << startVars, listing, handed, stories, now, schedule, pc,
                    target_publish_time, story_id, story_folders,
                    processed_ids, output_ok, output_size, maintained,
                    poolVars, rawVars, threadVars, queryVars, gateVars,
                    histVars >>

\* lines 56-57 raise OSError: line 58 is not reached and the exception
\* leaves get_best_stories
WriteFails ==
    /\ pc = "fetch"
    /\ saving # NoSaving
    /\ saving[2] = "open"
    /\ saving' = << saving[1], "failed" >>
    /\ UNCHANGED << startVars, posts_file, listing, handed, stories, now,
                    schedule, pc, target_publish_time, story_id,
                    story_folders, processed_ids, output_ok, output_size,
                    maintained, poolVars, rawVars, threadVars, queryVars,
                    gateVars, histVars >>

\* line 58: self.processed_ids.add(post_id); the package is returned and
\* main_loop takes it (main.py:161-169)
AddId ==
    /\ pc = "fetch"
    /\ saving # NoSaving
    /\ saving[2] = "written"
    /\ processed_ids' = processed_ids \cup { saving[1] }
    /\ stories' = << saving[1] >>
    /\ story_id' = saving[1]
    /\ story_folders' = story_folders \cup { saving[1] }
    /\ handed' = [ handed EXCEPT ![saving[1]] = @ + 1 ]
    /\ saving' = NoSaving
    /\ UNCHANGED << startVars, posts_file, listing, now, schedule, pc,
                    target_publish_time, output_ok, output_size, maintained,
                    poolVars, rawVars, threadVars, queryVars, gateVars,
                    histVars >>

NextLog ==
    \/ SelectPost
    \/ WriteLine
    \/ WriteFails
    \/ AddId
    \/ NewScraper
    \/ ListingChanges

SpecLog == InitStories /\ [][NextLog]_vars

\* C37: the id is in the file before it is in the set: after every step
\* the set of processed ids is within the ids of the file, an id enters the
\* set only when the file already holds it, and a failed append leaves the
\* set as it was.
C37_FileBeforeSet ==
    [][ /\ processed_ids' \subseteq LoggedIds(posts_file')
        /\ saving # NoSaving /\ saving' # saving /\ saving' # NoSaving
              /\ saving'[2] = "failed"
              => processed_ids' = processed_ids
        /\ saving # NoSaving /\ saving[2] = "written" /\ saving' = NoSaving
              => saving[1] \in LoggedIds(posts_file) ]_vars

\* C37 witness: between lines 57 and 58, the id of post 1 has been appended
\* to the file, after the id of post 2, and is not yet in the set.
C37_Witness ==
    /\ saving = << 1, "written" >>
    /\ posts_file = << 2, 1 >>
    /\ processed_ids = { 2 }

\* C37 second case, a failed append: the set and the file are unchanged.
C37_FailedAppend ==
    /\ saving = << 1, "failed" >>
    /\ posts_file = << 2 >>
    /\ processed_ids = { 2 }

=============================================================================
